---- MODULE Spec2Model ----
(***************************************************************************)
(* The clrInsights agent workflow: the LangGraph state machine built by    *)
(* create_agent_graph (src/agent/graph.py) over the nodes and routers of   *)
(* src/agent/nodes.py, driven by run_agent.  One behaviour is one run of   *)
(* run_agent.  The outcomes of the collaborators (model calls, the reply   *)
(* parser, the query tool, the chart sandbox) are inputs chosen with \E.   *)
(***************************************************************************)
EXTENDS Integers, Sequences, FiniteSets, TLC

\* ------------------------------------------------------------------------
\* Bounds of the model
\* ------------------------------------------------------------------------
\* longest plan the planning reply may carry
MaxSteps == 2

\* ------------------------------------------------------------------------
\* Values
\* ------------------------------------------------------------------------
\* Python's None, for the string-valued fields
None == "None"

\* Python truthiness of an optional string
Truthy(x) == x # None /\ x # ""

\* an optional list of rows (query_results): None or a list
NoneRows == [none |-> TRUE, rows |-> <<>>]
SomeRows(r) == [none |-> FALSE, rows |-> r]
TruthyRows(r) == ~r.none /\ Len(r.rows) > 0

\* query texts a plan step may carry (None: the step has no sql_query key)
StepQueries == {None, "bad1", "good1", "good2"}
\* query texts a repair reply may carry after stripping ("" = empty reply)
FixReplies == {"", "bad1", "bad2", "good1"}

\* the dataset is fixed: whether a query text runs is decided by its text.
\* bad1 fails validation (EXPLAIN), bad2 validates and fails in execution.
db_validate_query(q) == q # "bad1"
db_execute_ok(q) == q \in {"good1", "good2"}
db_rows(q) == IF q = "good1" THEN <<"row1">> ELSE <<>>

\* SQLTool.__call__: validate, then execute; never raises
sql_tool(q) ==
    IF ~db_validate_query(q)
    THEN [success |-> FALSE, error |-> "Invalid query: bad1", results |-> <<>>]
    ELSE IF db_execute_ok(q)
         THEN [success |-> TRUE, error |-> None, results |-> db_rows(q)]
         ELSE [success |-> FALSE, error |-> "Query execution failed: bad2",
               results |-> <<>>]

\* an element of plan['steps']: a JSON object, or anything else (isDict FALSE)
DictStep(d, q) == [isDict |-> TRUE, description |-> d, sql_query |-> q]
NonDictStep == [isDict |-> FALSE, description |-> None, sql_query |-> None]
StepValues == {DictStep(d, q) : d \in {"desc"}, q \in StepQueries}
                 \cup {NonDictStep}

SeqsUpTo(S, n) == UNION {[1..k -> S] : k \in 0..n}

\* the structured object the parser returns for the planning reply
Plans == [steps : SeqsUpTo(StepValues, MaxSteps),
          conversational_answer : {None, "hello"},
          sql_query : {None, "bad1", "good1"},
          reasoning : {"why"}]

\* results of execute_chart_code: {'images': [...], 'error': str | None}
SandboxResults == {[images |-> <<>>, error |-> "Chart code failed"],
                   [images |-> <<"img">>, error |-> None],
                   [images |-> <<>>, error |-> None]}

\* cleaned chart code replies
CodeReplies == {"", "pass", "code"}

TraceEntry(label, kind) == [step |-> label, type |-> kind]

\* ------------------------------------------------------------------------
\* Model Client (src/llm): values
\* ------------------------------------------------------------------------
\* largest max_retries a client is configured with
MaxRetries == 2
\* most chunks one stream yields
MaxChunks == 2

\* the coroutines that may be inside a method of one client at a time
Callers == {"c1", "c2"}

\* BaseLLMClient.__init__: the fields the retry logic reads
BaseLLMClient(model_name, fallback_model, max_retries) ==
    [model_name |-> model_name, fallback_model |-> fallback_model,
     max_retries |-> max_retries, current_model |-> model_name]

\* the configurations: no fallback, fallback equal to the primary, a real one
FallbackModels == {None, "primary", "fallback"}
Clients == {BaseLLMClient("primary", f, m) :
                f \in FallbackModels, m \in 0..MaxRetries}

\* the frame of one call of generate or generate_stream: its locals (retries),
\* where it is, and what it did so far (attempts: backend requests made;
\* failures: one entry per except clause run; chunks: chunks yielded;
\* model: the model of the latest request)
NoCall ==
    [kind |-> "none", pc |-> "idle", retries |-> 0, attempts |-> 0,
     failures |-> <<>>, chunks |-> 0, model |-> None]

\* history of the client: switches to the fallback since the last
\* reset_model (or construction) and the method that last assigned
\* current_model
InitialClientHist == [switches |-> 0, lastAssign |-> "__init__"]

\* ------------------------------------------------------------------------
\* Reply parser (_parse_llm_json, src/agent/nodes.py): values
\* ------------------------------------------------------------------------
\* a text is a sequence of characters, each a one-character string
DQ == "\""
SQ == "'"
BSL == "\\"
LF == "\n"
CR == "\r"
TAB == "\t"
FF == "\f"
\* the backtick, which a string of this language cannot hold
BT == "<backtick>"

\* str.strip() and the regex class \s, over the characters above
Whitespace == {" ", TAB, LF, CR, FF}
\* the whitespace json.loads skips between tokens
JsonWhitespace == {" ", TAB, LF, CR}
\* [\x00-\x08\x0b\x0c\x0e-\x1f\x7f], over the characters above
ControlChars == {FF}
\* what json.loads (strict) rejects unescaped inside a string: below \x20
StringControlChars == {TAB, LF, CR, FF}

\* structured data: a JSON string (s: its characters), literal (s: its
\* name), array (a: its items) or object (o: key -> value)
NoValue == [t |-> "none", s |-> <<>>, a |-> <<>>, o |-> <<>>]
JStr(s) == [t |-> "str", s |-> s, a |-> <<>>, o |-> <<>>]
JLit(s) == [t |-> "lit", s |-> s, a |-> <<>>, o |-> <<>>]
JArr(a) == [t |-> "arr", s |-> <<>>, a |-> a, o |-> <<>>]
\* dict built from key/value pairs in reading order: a later pair wins
JObj(pairs) ==
    [t |-> "obj", s |-> <<>>, a |-> <<>>,
     o |-> [k \in {pairs[n][1] : n \in 1..Len(pairs)} |->
              LET last == CHOOSE n \in 1..Len(pairs) :
                              /\ pairs[n][1] = k
                              /\ \A m \in (n + 1)..Len(pairs) : pairs[m][1] # k
              IN  pairs[last][2]]]

\* longest string value a reply carries
MaxValueLen == 2
\* the characters of the string values, and the values
ValueChars == {"a", " ", ",", "}", SQ}
Values == SeqsUpTo(ValueChars, MaxValueLen)

\* the field names
K_steps ==
    <<"s", "t", "e", "p", "s">>
K_description ==
    <<"d", "e", "s", "c", "r", "i", "p", "t", "i", "o", "n">>
K_sql_query ==
    <<"s", "q", "l", "_", "q", "u", "e", "r", "y">>
K_reasoning ==
    <<"r", "e", "a", "s", "o", "n", "i", "n", "g">>
K_json ==
    <<"j", "s", "o", "n">>
K_true ==
    <<"t", "r", "u", "e">>
K_false ==
    <<"f", "a", "l", "s", "e">>
K_null ==
    <<"n", "u", "l", "l">>
K_Step ==
    <<"S", "t", "e", "p", " ">>
Fence == <<BT, BT, BT>>
Digits == <<"0", "1", "2", "3", "4", "5", "6", "7", "8", "9">>

\* the planning reply  {"steps":[{"description":"d","sql_query":<value>}],
\* "reasoning":"r"}  around its value and the comma between its members
PlanHead ==
    <<"{", DQ, "s", "t", "e", "p", "s", DQ, ":", "[", "{", DQ, "d", "e",
      "s", "c", "r", "i", "p", "t", "i", "o", "n", DQ, ":", DQ, "d", DQ,
      ",", DQ, "s", "q", "l", "_", "q", "u", "e", "r", "y", DQ, ":">>
PlanMid ==
    <<"}", "]">>
PlanTail ==
    <<DQ, "r", "e", "a", "s", "o", "n", "i", "n", "g", DQ, ":", DQ, "r",
      DQ, "}">>
\* the conversational reply  {"steps":[],"conversational_answer":<value>}
ChatHead ==
    <<"{", DQ, "s", "t", "e", "p", "s", DQ, ":", "[", "]">>
ChatMid ==
    <<DQ, "c", "o", "n", "v", "e", "r", "s", "a", "t", "i", "o", "n", "a",
      "l", "_", "a", "n", "s", "w", "e", "r", DQ, ":">>
ChatTail ==
    <<"}">>

\* a reply of shape tpl whose value v is written between the quotes q, with
\* sep between the members
Reply(tpl, q, v, sep) ==
    IF tpl = "plan"
    THEN PlanHead \o q \o v \o q \o PlanMid \o sep \o PlanTail
    ELSE ChatHead \o sep \o ChatMid \o q \o v \o q \o ChatTail

\* the well-formed reply: no value holds a character that JSON escapes
WellFormed(tpl, v) == Reply(tpl, <<DQ>>, v, <<",">>)

\* ways a reply departs from its well-formed text
Kinds == {"well_formed", "fenced", "trailing_comma", "single_quoted",
          "literal_newline", "triple_quoted", "missing_comma"}

Substitute(t, from, to) == [i \in 1..Len(t) |-> IF t[i] = from THEN to ELSE t[i]]

Malformed(kind, tpl, v) ==
    LET w == WellFormed(tpl, v)
    IN  CASE kind = "well_formed" -> w
          [] kind = "fenced" -> Fence \o K_json \o <<LF>> \o w \o <<LF>> \o Fence
          [] kind = "trailing_comma" ->
                 SubSeq(w, 1, Len(w) - 1) \o <<",", w[Len(w)]>>
          [] kind = "single_quoted" -> Substitute(w, DQ, SQ)
          [] kind = "literal_newline" ->
                 Reply(tpl, <<DQ>>, Substitute(v, " ", LF), <<",">>)
          [] kind = "triple_quoted" -> Reply(tpl, <<DQ, DQ, DQ>>, v, <<",">>)
          [] kind = "missing_comma" -> Reply(tpl, <<DQ>>, v, <<>>)

\* the replies handed to the parser, each with the well-formed text it
\* stands for
Replies ==
    {[kind |-> k, value |-> v, raw |-> Malformed(k, tpl, v),
      ref |-> WellFormed(tpl, v)] :
        k \in Kinds, tpl \in {"plan", "chat"}, v \in Values}

\* the frame of one _parse_llm_json call: its argument raw, its locals
\* cleaned and fixed and what it returned; for observation, the stages run
\* so far and how the reply was made (kind, value, ref)
NoParse ==
    [pc |-> "idle", raw |-> <<>>, cleaned |-> <<>>, fixed |-> <<>>,
     result |-> NoValue, ran |-> <<>>,
     kind |-> "none", value |-> <<>>, ref |-> <<>>]

\* ------------------------------------------------------------------------
\* Sandboxed chart runner (src/sandbox/chart_executor.py): values
\* ------------------------------------------------------------------------
\* a text is a sequence of pieces; a line of the child's stderr is a text.
\* The pieces that matter to _sanitize_error: a name its exception pattern
\* matches, a File "..." reference, a bare path, whitespace, other words
ScriptPath == "/tmp/tmpab12cd.py"
DataPath == "/data/missing.csv"
TempDir == "/tmp"
FileRef == "File \"/tmp/tmpab12cd.py\""
ChartRef == "File \"<chart>\""
LongMessage == "xxx...x"
Paths == {ScriptPath, DataPath, TempDir}
FileRefs == {FileRef}
ExceptionNames == {"KeyError", "FileNotFoundError", "RuntimeError"}
Blank == {" "}

\* the number of characters a piece stands for
Width(piece) ==
    CASE piece = ScriptPath -> 17
      [] piece = DataPath -> 17
      [] piece = FileRef -> 24
      [] piece = ChartRef -> 14
      [] piece = LongMessage -> 300
      [] piece \in Blank -> 1
      [] OTHER -> 9

\* lines a failing child writes to stderr
StderrLines ==
    {<<"Traceback">>,
     <<" ", " ", FileRef, ", line 55">>,
     <<"KeyError", ": 'sender'">>,
     <<"FileNotFoundError", ": [Errno 2] ", DataPath>>,
     <<"RuntimeError", ": ", ScriptPath>>,
     <<"RuntimeError", ": ", LongMessage, ScriptPath>>,
     <<ScriptPath, ":55: UserWarning">>,
     <<" ", "note", " ">>,
     <<" ">>}

\* most lines of one stderr
MaxLines == 2
Stderrs == SeqsUpTo(StderrLines, MaxLines)

\* what follows the marker on the child's stdout: no marker at all, a JSON
\* object with images, an object without that key, JSON that is no object,
\* text that is no JSON
Payloads == {"no_marker", "images", "no_images_key", "not_an_object", "not_json"}
\* the images the epilogue encoded
ChildImages == {<<>>, <<"img">>}

\* how subprocess.run ends: the CompletedProcess, TimeoutExpired, or OSError
Completed(returncode, payload, images, stderr) ==
    [how |-> "completed", returncode |-> returncode, payload |-> payload,
     images |-> images, stderr |-> stderr]
TimeoutExpired ==
    [how |-> "timeout", returncode |-> 0, payload |-> "no_marker",
     images |-> <<>>, stderr |-> <<>>]
SpawnError ==
    [how |-> "oserror", returncode |-> 0, payload |-> "no_marker",
     images |-> <<>>, stderr |-> <<>>]
NotRun ==
    [how |-> "none", returncode |-> 0, payload |-> "no_marker",
     images |-> <<>>, stderr |-> <<>>]
ChildOutcomes ==
    {Completed(rc, p, im, e) :
        rc \in {0, 1}, p \in Payloads, im \in ChildImages, e \in Stderrs}
        \cup {TimeoutExpired, SpawnError}

\* str(e) of the exceptions the try body raises outside the child: the
\* encoder rejecting the script, the spawn failing on a missing directory,
\* the flush in close failing, json.loads on the payload, .get on a payload
\* that is no object
WriteErrorText == <<"'utf-8' codec can't encode character">>
SpawnErrorText == <<"[Errno 2] No such file or directory: ", TempDir>>
CloseErrorText == <<"[Errno 28] No space left on device">>
JsonErrorText == <<"Expecting value: line 1 column 1 (char 0)">>
GetErrorText == <<"'list' object has no attribute 'get'">>

\* the operating systems: on nt a file with an open handle cannot be unlinked
Platforms == {"posix", "nt"}

\* the temporary file: whether it exists and whether tmp still holds it open
NoFile == [exists |-> FALSE, open |-> FALSE]
\* the result dict; error None or a text
\* the 'error' of a result dict: None or a text
NoError == [none |-> TRUE, text |-> <<>>]
ErrorText(t) == [none |-> FALSE, text |-> t]
\* the result dict
ChartResult(images, error) == [images |-> images, error |-> error]
NoResult == ChartResult(<<>>, NoError)

\* the frame of one execute_chart_code call
NoRun ==
    [pc |-> "idle", platform |-> "posix", tmp |-> NoFile, child |-> NotRun,
     exc |-> <<>>, result |-> NoResult, path |-> "none"]

\* ------------------------------------------------------------------------
\* Concurrent requests (src/main.py, src/agent/graph.py, src/data): values
\* ------------------------------------------------------------------------
\* the requests in flight in one server process
RunIds == {"r1", "r2"}

\* the list objects run_agent creates for its trace, one per call
Objects == {"list1", "list2"}
EmptyHeap == [o \in Objects |-> [allocated |-> FALSE, items |-> <<>>]]

\* the planning replies of the concurrent requests: no plan, a conversational
\* answer, or one step
RequestPlans ==
    {p \in Plans :
        /\ p.sql_query = None
        /\ Len(p.steps) <= 1
        /\ Len(p.steps) = 1 =>
              /\ p.steps[1].isDict
              /\ p.steps[1].sql_query \in {"bad1", "good1", "good2"}
              /\ p.conversational_answer = None}

\* the repaired queries the model returns to the concurrent requests
RequestFixReplies == {"bad2", "good1"}

\* cursor.description after a statement: the columns of its result
ExplainColumns == <<"explain_key", "explain_value">>
db_columns(q) == IF q = "good1" THEN <<"col1">> ELSE <<"col2">>

\* the connection object of the one DuckDBManager: the description left by
\* the last statement, and (observation only) the request that issued it
Connection(description, by) == [description |-> description, by |-> by]

\* ------------------------------------------------------------------------
\* Provider clients and key rotation (src/llm/__init__.py, src/main.py)
\* ------------------------------------------------------------------------
\* the providers with a client, and the provider values a request may name
Providers == {"gemini", "groq"}
ProviderTags == Providers \cup {"openai", "Gemini", ""}

\* the keys of the settings, and the `key` values of a request body
SettingsKey == "key0"
BodyKeys == {"", " ", "key1", " key2"}

\* str.strip on the key values of a request body
strip_key(k) == IF k = " " THEN "" ELSE IF k = " key2" THEN "key2" ELSE k

\* a backend handle: the key it was constructed with
Handle(api_key) == [api_key |-> api_key]
NoHandle == [api_key |-> None]

\* GeminiClient / GroqClient after __init__: the BaseLLMClient fields, the
\* credential and the backend handles (Gemini has no sync_client)
ProviderClient(provider, api_key) ==
    [base |-> BaseLLMClient("primary", "fallback", MaxRetries),
     api_key |-> api_key,
     client |-> Handle(api_key),
     sync_client |-> IF provider = "groq" THEN Handle(api_key) ELSE NoHandle]

\* what the last PUT /settings/keys did
NoUpdate == [provider |-> None, key |-> None, status |-> "none", n |-> 0]

InitialRegistry ==
    [clients |-> [p \in Providers |-> ProviderClient(p, SettingsKey)],
     last |-> NoUpdate]

\* ------------------------------------------------------------------------
\* Sessions (src/memory/conversation.py, src/main.py): values
\* ------------------------------------------------------------------------
\* the chat requests made on the one session id of the model
Chats == {"q1", "q2"}

\* the ConversationHistory objects the process may construct
Histories == {"h1", "h2", "h3"}

\* a message of the session: its role and the request it belongs to
Message(role, q) == [role |-> role, chat |-> q]
StoredMessages == <<Message("user", "before"), Message("assistant", "before")>>

\* result['visualizations'] of a run: base64 texts, possibly empty ones
MaxImages == 2
ImageLists == SeqsUpTo({"", "img"}, MaxImages)

\* what run_agent gives the chat handler: a result dict, or an exception
RunResults ==
    [raised : {FALSE}, answer : {"", "final answer"}, visualizations : ImageLists]
    \cup {[raised |-> TRUE, answer |-> "", visualizations |-> <<>>]}

\* ConversationHistory.__init__ default max_messages
MaxMessages == 50

\* the session folder: absent, or with messages.json (when written) and the
\* numbers NNN of the files viz_NNN.png
NoFolder == [exists |-> FALSE, has_messages |-> FALSE, messages |-> <<>>,
             viz |-> {}]

\* the session was used before: its folder holds two messages; no object is
\* cached; no request is in progress. Observation only: the messages a
\* delete removed, and the file numbers the last save wrote
InitialSessions ==
    [folder |-> [exists |-> TRUE, has_messages |-> TRUE,
                 messages |-> StoredMessages, viz |-> {}],
     cache |-> None,
     objects |-> [h \in Histories |-> [created |-> FALSE, messages |-> <<>>]],
     chats |-> [q \in Chats |-> [pc |-> "idle", history |-> None]],
     deleted |-> {},
     written |-> {},
     existing |-> {}]

\* ------------------------------------------------------------------------
\* State
\* ------------------------------------------------------------------------
VARIABLES
    pc,        \* the graph node to run next, END, "returned" or "raised"
    state,     \* the AgentState dict threaded through the nodes
    trace,     \* the list object state['trace'], appended to in place
    response,  \* what run_agent returned to its caller
    hist,      \* history of the run (observation only, never read by a node)
    client,    \* the fields of one BaseLLMClient instance
    calls,     \* per caller, the frame of its generate / generate_stream call
    chist,     \* history of the client (observation only)
    parser,    \* the frame of one _parse_llm_json call
    sandbox,   \* the frame of one execute_chart_code call
    server,    \* one server process: requests, heap, connection, event loop
    registry,  \* the provider clients and the last key update
    sessions   \* one session: its folder, the session cache, the chat requests

vars == <<pc, state, trace, response, hist, client, calls, chist, parser, sandbox, server, registry, sessions>>

\* the variables of the agent workflow
workflow == <<pc, state, trace, response, hist>>

NoResponse == [returned |-> FALSE]

\* run_agent: initial_state and the first trace entry
InitialState ==
    [steps |-> <<>>, current_step |-> 0,
     sql_query |-> None, query_results |-> NoneRows,
     visualizations |-> <<>>, sql_queries |-> <<>>, all_query_results |-> <<>>,
     answer |-> "", error |-> None, retries |-> 0, should_continue |-> TRUE]

\* a request before run_agent is called for it: the graph position, the
\* state dict, the trace list object, the returned dict, the position inside
\* sql_tool with the fetched rows, and (observation only) the query whose
\* rows the request was given last, with the column names it was given
NoFrame ==
    [pc |-> "idle", state |-> InitialState, trace |-> None,
     response |-> NoResponse, call |-> "none", fetched |-> <<>>,
     executed |-> None, columns |-> <<>>]

IdleServer ==
    [runs |-> [r \in RunIds |-> NoFrame],
     heap |-> EmptyHeap,
     conn |-> Connection(<<>>, None),
     running |-> None]

\* the history: per plan step (0-based, as current_step) the number of
\* sql_tool calls and of fix_sql entries, the length of sql_queries when the
\* step was prepared, the query texts whose execution failed and the number
\* of executions that succeeded; the texts that executed successfully, in
\* order; the values of current_step at which prepare_step ran, in order;
\* the cleaned chart code the model replied first (vizReply); which
\* failures happened (firstSandboxErr: the first sandbox run
\* reported an error); the steps whose retries ran out; the calls made so far
StepIndexes == 0..MaxSteps

InitialHist ==
    [execs |-> [i \in StepIndexes |-> 0],
     fixes |-> [i \in StepIndexes |-> 0],
     lenAtPrepare |-> [i \in StepIndexes |-> 0],
     failedTexts |-> [i \in StepIndexes |-> {}],
     okCount |-> [i \in StepIndexes |-> 0], okTexts |-> <<>>,
     firstSandboxErr |-> FALSE,
     analysisFailed |-> FALSE, fixFailed |-> FALSE, answerFailed |-> FALSE,
     vizFailed |-> FALSE, exhausted |-> {},
     conversational |-> None, afterFixFail |-> {},
     nAnswerCalls |-> 0, nVizCalls |-> 0, nVizFix |-> 0, nSandbox |-> 0,
     prepared |-> <<>>, vizReply |-> None]

Init ==
    /\ pc = "analyze"
    /\ state = InitialState
    /\ trace = <<TraceEntry("Initialized with provider", "info")>>
    /\ response = NoResponse
    /\ hist = InitialHist
    /\ client = BaseLLMClient("primary", "fallback", MaxRetries)
    /\ calls = [c \in Callers |-> NoCall]
    /\ chist = InitialClientHist
    /\ parser = NoParse
    /\ sessions = InitialSessions
    /\ registry = InitialRegistry
    /\ server = IdleServer
    /\ sandbox = NoRun


\* mutant: the entry is put in front of the trace
Log_mutC26(tr, label, kind) == <<TraceEntry(label, kind)>> \o tr

\* list.append on the trace object
Log(tr, label, kind) == Append(tr, TraceEntry(label, kind))

\* ------------------------------------------------------------------------
\* Routers (conditional edges of the graph)
\* ------------------------------------------------------------------------
\* any(s.get('sql_query') for s in steps): scans in order, stops at the first
\* truthy query, raises AttributeError on an element that is no dict
FirstTruthyQuery(steps) ==
    {i \in 1..Len(steps) : steps[i].isDict /\ Truthy(steps[i].sql_query)}
FirstNonDict(steps) ==
    {i \in 1..Len(steps) : ~steps[i].isDict}
Lowest(S) == CHOOSE i \in S : \A j \in S : i <= j
AnyRaises(steps) ==
    /\ FirstNonDict(steps) # {}
    /\ \/ FirstTruthyQuery(steps) = {}
       \/ Lowest(FirstNonDict(steps)) < Lowest(FirstTruthyQuery(steps))

\* mutant: any plan with steps leads into the step loop
route_after_analysis_mutC37(s) ==
    IF Truthy(s.answer) THEN "answer"
    ELSE IF Len(s.steps) > 0 /\ AnyRaises(s.steps) THEN "raised"
    ELSE IF Len(s.steps) > 0 THEN "prepare_step"
    ELSE "answer"

\* route_after_analysis: "answer", "prepare_step", or the exception it raises
route_after_analysis(s) ==
    IF Truthy(s.answer) THEN "answer"
    ELSE IF Len(s.steps) > 0 /\ AnyRaises(s.steps) THEN "raised"
    ELSE IF Len(s.steps) > 0 /\ FirstTruthyQuery(s.steps) # {} THEN "prepare_step"
    ELSE "answer"

\* mutant: one more repair is allowed
route_after_sql_mutC2(s) ==
    IF Truthy(s.error) /\ s.retries <= 4 THEN "fix_sql"
    ELSE IF s.current_step < Len(s.steps) - 1 THEN "advance_step"
    ELSE "generate_viz"

\* mutant: the steps left are counted one short
route_after_sql_mutC12(s) ==
    IF Truthy(s.error) /\ s.retries <= 3 THEN "fix_sql"
    ELSE IF s.current_step < Len(s.steps) - 2 THEN "advance_step"
    ELSE "generate_viz"

\* mutant: the cursor may advance past the last step
route_after_sql_mutC29(s) ==
    IF Truthy(s.error) /\ s.retries <= 3 THEN "fix_sql"
    ELSE IF s.current_step < Len(s.steps) THEN "advance_step"
    ELSE "generate_viz"

\* route_after_sql
route_after_sql(s) ==
    IF Truthy(s.error) /\ s.retries <= 3 THEN "fix_sql"
    ELSE IF s.current_step < Len(s.steps) - 1 THEN "advance_step"
    ELSE "generate_viz"

\* the unconditional edges of create_agent_graph
edge_prepare_step == "execute_sql"
edge_fix_sql == "execute_sql"
edge_advance_step == "prepare_step"
edge_generate_viz == "answer"
edge_answer == "END"

\* ------------------------------------------------------------------------
\* The state each node returns
\* ------------------------------------------------------------------------
\* analyze_query_node, the conversational shortcut
AnalyzeConversational(s, plan) ==
    [s EXCEPT !.steps = <<>>, !.current_step = 0, !.visualizations = <<>>,
              !.sql_queries = <<>>, !.all_query_results = <<>>,
              !.answer = plan.conversational_answer,
              !.should_continue = FALSE]

\* analyze_query_node, the plan (with the old single-query shape wrapped)
PlanSteps(plan) ==
    IF Len(plan.steps) = 0 /\ Truthy(plan.sql_query)
    THEN <<DictStep(plan.reasoning, plan.sql_query)>>
    ELSE plan.steps

AnalyzePlan(s, plan) ==
    [s EXCEPT !.steps = PlanSteps(plan), !.current_step = 0,
              !.visualizations = <<>>, !.sql_queries = <<>>,
              !.all_query_results = <<>>]

\* mutant: the planning failure is not recorded in error
AnalyzeFailure_mutC6(s) ==
    [s EXCEPT !.steps = <<>>, !.current_step = 0, !.visualizations = <<>>,
              !.sql_queries = <<>>, !.all_query_results = <<>>,
              !.should_continue = FALSE]

\* analyze_query_node, the except branch
AnalyzeFailure(s) ==
    [s EXCEPT !.steps = <<>>, !.current_step = 0, !.visualizations = <<>>,
              !.sql_queries = <<>>, !.all_query_results = <<>>,
              !.error = "Query analysis failed",
              !.should_continue = FALSE]

\* prepare_step_node (steps[current] is a dict here)
PrepareStep(s) ==
    IF s.current_step >= Len(s.steps)
    THEN [s EXCEPT !.sql_query = None, !.query_results = NoneRows]
    ELSE [s EXCEPT !.sql_query = s.steps[s.current_step + 1].sql_query,
                   !.query_results = NoneRows]

\* mutant: the result set is not accumulated with its query
ExecSuccess_mutC1(s, result) ==
    [s EXCEPT !.query_results = SomeRows(result.results),
              !.sql_queries = Append(@, s.sql_query),
              !.error = None]

\* mutant: the accumulated lists are extended twice
ExecSuccess_mutC14(s, result) ==
    [s EXCEPT !.query_results = SomeRows(result.results),
              !.sql_queries = Append(Append(@, s.sql_query), s.sql_query),
              !.all_query_results = Append(Append(@, result.results),
                                           result.results),
              !.error = None]

\* execute_sql_node, result['success']
ExecSuccess(s, result) ==
    [s EXCEPT !.query_results = SomeRows(result.results),
              !.sql_queries = Append(@, s.sql_query),
              !.all_query_results = Append(@, result.results),
              !.error = None]

\* mutant: the failing query is accumulated as well
ExecFailure_mutC3(s, result) ==
    [s EXCEPT !.error = result.error, !.retries = @ + 1,
              !.sql_queries = Append(@, s.sql_query),
              !.all_query_results = Append(@, result.results)]

\* mutant: a failed execution does not count as a retry
ExecFailure_mutC4(s, result) ==
    [s EXCEPT !.error = result.error]

\* mutant: the query is recorded as executed before its outcome is known
ExecFailure_mutC13(s, result) ==
    [s EXCEPT !.error = result.error, !.retries = @ + 1,
              !.sql_queries = Append(@, s.sql_query)]

\* execute_sql_node, the failure branch
ExecFailure(s, result) ==
    [s EXCEPT !.error = result.error, !.retries = @ + 1]

\* mutant: the repaired text is written to the first step of the plan
FixSuccess_mutC31(s, fixed_sql) ==
    [s EXCEPT !.sql_query = fixed_sql,
              !.error = None,
              !.steps = IF s.current_step < Len(s.steps)
                        THEN [@ EXCEPT ![1].sql_query = fixed_sql]
                        ELSE @]

\* mutant: the repaired text is not written back to the plan step
FixSuccess_mutC32(s, fixed_sql) ==
    [s EXCEPT !.sql_query = fixed_sql, !.error = None]

\* fix_sql_node, the model replied
FixSuccess(s, fixed_sql) ==
    [s EXCEPT !.sql_query = fixed_sql,
              !.error = None,
              !.steps = IF s.current_step < Len(s.steps)
                        THEN [@ EXCEPT ![s.current_step + 1].sql_query = fixed_sql]
                        ELSE @]

\* fix_sql_node, the except branch
FixFailure(s) ==
    [s EXCEPT !.error = "SQL fix failed", !.should_continue = FALSE]

\* mutant: the cursor skips a step
AdvanceStep_mutC28(s) ==
    [s EXCEPT !.current_step = @ + 2, !.error = None, !.retries = 0]

\* mutant: the retry counter is carried over to the next step
AdvanceStep_mutC30(s) ==
    [s EXCEPT !.current_step = @ + 1, !.error = None]

\* advance_step_node
AdvanceStep(s) ==
    [s EXCEPT !.current_step = @ + 1, !.error = None, !.retries = 0]

\* generate_visualizations_node, images produced
VizImages(s, images) ==
    [s EXCEPT !.visualizations = @ \o images]

\* mutant: a chart failure is reported in error
VizNoChart_mutC10(s) == [s EXCEPT !.error = "Viz generation failed"]

\* generate_visualizations_node, the except branch and the no-chart returns
VizNoChart(s) == s

\* mutant: the shortcut asks for current results instead of for none
AnswerAlreadySet_mutC9(s) ==
    /\ Truthy(s.answer)
    /\ Len(s.all_query_results) = 0
    /\ TruthyRows(s.query_results)

\* generate_answer_node, the test of the conversational shortcut
AnswerAlreadySet(s) ==
    /\ Truthy(s.answer)
    /\ Len(s.all_query_results) = 0
    /\ ~TruthyRows(s.query_results)

\* mutant: the failure return drops the accumulated queries and results
AnswerFailure_mutC8(s) ==
    [s EXCEPT !.error = "Answer generation failed", !.should_continue = FALSE,
              !.sql_queries = <<>>, !.all_query_results = <<>>]

\* generate_answer_node, the three returns
AnswerShortcut(s) == [s EXCEPT !.should_continue = FALSE]
AnswerSuccess(s, reply) == [s EXCEPT !.answer = reply, !.should_continue = FALSE]
AnswerFailure(s) ==
    [s EXCEPT !.error = "Answer generation failed", !.should_continue = FALSE]

\* steps[i].get('description', ...) over zip(all_results, sql_queries) raises
\* on an element of steps that is no dict
LabelRaises(s) ==
    \E i \in 1..Len(s.sql_queries) :
        i <= Len(s.all_query_results) /\ i <= Len(s.steps) /\ ~s.steps[i].isDict


\* ------------------------------------------------------------------------
\* run_agent around graph.ainvoke
\* ------------------------------------------------------------------------
\* an exception that leaves a node or a router leaves graph.ainvoke; run_agent
\* logs it and re-raises it to its caller
Raise(tr) == Log(tr, "Agent execution failed", "error")

\* the nodes entered after a failed repair call
Visit(h, node) ==
    IF h.fixFailed THEN [h EXCEPT !.afterFixFail = @ \cup {node}] ELSE h

\* ------------------------------------------------------------------------
\* Nodes
\* ------------------------------------------------------------------------
analyze_query_node ==
    /\ pc = "analyze"
    /\ \/ \* client.generate raises
          /\ state' = AnalyzeFailure(state)
          /\ trace' = Log(trace, "Analysis failed", "error")
          /\ hist' = [hist EXCEPT !.analysisFailed = TRUE]
       \/ \* _parse_llm_json raises on the reply
          /\ state' = AnalyzeFailure(state)
          /\ trace' = Log(Log(trace, "Query analysis", "analysis"),
                          "Analysis failed", "error")
          /\ hist' = [hist EXCEPT !.analysisFailed = TRUE]
       \/ \E plan \in Plans :
            /\ Len(plan.steps) = 0 /\ Truthy(plan.conversational_answer)
            /\ state' = AnalyzeConversational(state, plan)
            /\ trace' = Log(trace, "Query analysis", "analysis")
            /\ hist' = [hist EXCEPT !.conversational = plan.conversational_answer]
       \/ \E plan \in Plans :
            /\ ~(Len(plan.steps) = 0 /\ Truthy(plan.conversational_answer))
            /\ state' = AnalyzePlan(state, plan)
            /\ LET tr == Log(trace, "Query analysis", "analysis")
               IN  trace' = IF route_after_analysis(state') = "raised"
                            THEN Raise(tr) ELSE tr
            /\ hist' = hist
    /\ pc' = route_after_analysis(state')
    /\ UNCHANGED response
    /\ UNCHANGED <<client, calls, chist, parser, sandbox, server, registry, sessions>>

prepare_step_node ==
    /\ pc = "prepare_step"
    /\ IF state.current_step < Len(state.steps)
          /\ ~state.steps[state.current_step + 1].isDict
       THEN \* step.get raises AttributeError
            /\ pc' = "raised"
            /\ trace' = Raise(trace)
            /\ UNCHANGED <<state, hist>>
       ELSE /\ state' = PrepareStep(state)
            /\ pc' = edge_prepare_step
            /\ hist' = Visit([hist EXCEPT !.lenAtPrepare[state.current_step] =
                                              Len(state.sql_queries),
                                          !.prepared =
                                              Append(@, state.current_step)],
                             "prepare_step")
            /\ UNCHANGED trace
    /\ UNCHANGED response
    /\ UNCHANGED <<client, calls, chist, parser, sandbox, server, registry, sessions>>

execute_sql_node ==
    /\ pc = "execute_sql"
    /\ IF ~Truthy(state.sql_query)
       THEN /\ state' = state
            /\ hist' = Visit(hist, "execute_sql")
       ELSE LET result == sql_tool(state.sql_query)
                h == [hist EXCEPT !.execs[state.current_step] = @ + 1]
            IN  IF result.success
                THEN /\ state' = ExecSuccess(state, result)
                     /\ hist' = Visit(
                            [h EXCEPT !.okCount[state.current_step] = @ + 1,
                                      !.okTexts = Append(@, state.sql_query)],
                            "execute_sql")
                ELSE /\ state' = ExecFailure(state, result)
                     /\ hist' = Visit(
                            [h EXCEPT
                               !.failedTexts[state.current_step] =
                                   @ \cup {state.sql_query},
                               !.exhausted =
                                   IF route_after_sql(state') # "fix_sql"
                                   THEN @ \cup {state.current_step} ELSE @],
                            "execute_sql")
    /\ pc' = route_after_sql(state')
    /\ UNCHANGED <<trace, response>>
    /\ UNCHANGED <<client, calls, chist, parser, sandbox, server, registry, sessions>>

fix_sql_node ==
    /\ pc = "fix_sql"
    /\ \/ \* client.generate raises
          /\ state' = FixFailure(state)
          /\ hist' = [Visit(hist, "fix_sql") EXCEPT
                          !.fixes[state.current_step] = @ + 1,
                          !.fixFailed = TRUE]
       \/ \E fixed_sql \in FixReplies :
            /\ state' = FixSuccess(state, fixed_sql)
            /\ hist' = [Visit(hist, "fix_sql") EXCEPT
                            !.fixes[state.current_step] = @ + 1]
    /\ pc' = edge_fix_sql
    /\ UNCHANGED <<trace, response>>
    /\ UNCHANGED <<client, calls, chist, parser, sandbox, server, registry, sessions>>

advance_step_node ==
    /\ pc = "advance_step"
    /\ state' = AdvanceStep(state)
    /\ pc' = edge_advance_step
    /\ hist' = Visit(hist, "advance_step")
    /\ UNCHANGED <<trace, response>>
    /\ UNCHANGED <<client, calls, chist, parser, sandbox, server, registry, sessions>>


\* mutant: the repair is requested whatever the first sandbox run reported
NeedsRepair_mutC11(result) == TRUE

\* generate_visualizations_node: `if result['error']` after the first run
NeedsRepair(result) == Truthy(result.error)

\* generate_visualizations_node, from the sandbox result to the returned state
VizFinish(s, result) ==
    IF Len(result.images) > 0 THEN VizImages(s, result.images) ELSE VizNoChart(s)
VizFinishTrace(tr, result) ==
    IF Len(result.images) > 0 THEN Log(tr, "Generated chart(s)", "viz") ELSE tr

\* mutant: only the empty reply counts as "no chart needed"
NoChartNeeded_mutC33(code) == code = ""

\* generate_visualizations_node: `code.strip() == 'pass' or not code.strip()`
NoChartNeeded(code) == code = "pass" \/ code = ""

generate_visualizations_node ==
    /\ pc = "generate_viz"
    /\ IF Len(state.all_query_results) = 0
       THEN /\ trace' = Log(trace, "Skipped visualization", "info")
            /\ state' = VizNoChart(state)
            /\ hist' = Visit(hist, "generate_viz")
            /\ pc' = edge_generate_viz
       ELSE IF LabelRaises(state)
       THEN /\ trace' = Raise(trace)
            /\ pc' = "raised"
            /\ UNCHANGED <<state, hist>>
       ELSE
         LET h == [Visit(hist, "generate_viz") EXCEPT !.nVizCalls = @ + 1]
             t1 == Log(trace, "Visualization code generation", "viz")
         IN
         /\ pc' = edge_generate_viz
         /\ \/ \* client.generate raises
               /\ trace' = Log(trace, "Viz generation failed", "error")
               /\ state' = VizNoChart(state)
               /\ hist' = [h EXCEPT !.vizFailed = TRUE]
            \/ \E code \in CodeReplies :
                 /\ NoChartNeeded(code)
                 /\ trace' = t1
                 /\ state' = VizNoChart(state)
                 /\ hist' = [h EXCEPT !.vizReply = code]
            \/ \E code \in CodeReplies, result \in SandboxResults :
                 /\ ~NoChartNeeded(code)
                 /\ ~NeedsRepair(result)
                 /\ trace' = VizFinishTrace(t1, result)
                 /\ state' = VizFinish(state, result)
                 /\ hist' = [h EXCEPT !.nSandbox = @ + 1, !.vizReply = code,
                                      !.firstSandboxErr = result.error # None]
            \/ \E code \in CodeReplies, result \in SandboxResults :
                 /\ ~NoChartNeeded(code)
                 /\ NeedsRepair(result)
                 /\ LET t2 == Log(t1, "Chart code failed", "error")
                        h2 == [h EXCEPT !.nSandbox = @ + 1, !.nVizFix = @ + 1,
                                        !.vizReply = code,
                                        !.vizFailed = TRUE,
                                        !.firstSandboxErr = result.error # None]
                    IN  \/ \* the repair call raises
                           /\ trace' = Log(t2, "Viz generation failed", "error")
                           /\ state' = VizNoChart(state)
                           /\ hist' = h2
                        \/ \E fixed_code \in CodeReplies :
                             /\ NoChartNeeded(fixed_code)
                             /\ trace' = VizFinishTrace(t2, result)
                             /\ state' = VizFinish(state, result)
                             /\ hist' = h2
                        \/ \E fixed_code \in CodeReplies, result2 \in SandboxResults :
                             /\ ~NoChartNeeded(fixed_code)
                             /\ trace' = VizFinishTrace(t2, result2)
                             /\ state' = VizFinish(state, result2)
                             /\ hist' = [h2 EXCEPT !.nSandbox = @ + 1]
    /\ UNCHANGED response
    /\ UNCHANGED <<client, calls, chist, parser, sandbox, server, registry, sessions>>

\* replies of the answer model call
AnswerReplies == {"final answer"}

generate_answer_node ==
    /\ pc = "answer"
    /\ IF AnswerAlreadySet(state)
       THEN /\ state' = AnswerShortcut(state)
            /\ hist' = Visit(hist, "answer")
            /\ pc' = edge_answer
            /\ UNCHANGED trace
       ELSE IF LabelRaises(state)
       THEN /\ trace' = Raise(trace)
            /\ pc' = "raised"
            /\ UNCHANGED <<state, hist>>
       ELSE
         /\ pc' = edge_answer
         /\ UNCHANGED trace
         /\ \/ \E reply \in AnswerReplies :
                 /\ state' = AnswerSuccess(state, reply)
                 /\ hist' = [Visit(hist, "answer") EXCEPT !.nAnswerCalls = @ + 1]
            \/ \* client.generate raises
               /\ state' = AnswerFailure(state)
               /\ hist' = [Visit(hist, "answer") EXCEPT !.nAnswerCalls = @ + 1,
                                                        !.answerFailed = TRUE]
    /\ UNCHANGED response
    /\ UNCHANGED <<client, calls, chist, parser, sandbox, server, registry, sessions>>

\* run_agent: the dict returned to the caller when the graph reached END
Response(s, tr) ==
    [returned |-> TRUE,
     answer |-> s.answer,
     visualizations |-> s.visualizations,
     sql_queries |-> s.sql_queries,
     all_query_results |-> s.all_query_results,
     query_results |-> s.query_results,
     error |-> s.error,
     trace |-> tr]

run_agent_return ==
    /\ pc = "END"
    /\ response' = Response(state, trace)
    /\ pc' = "returned"
    /\ UNCHANGED <<state, trace, hist>>
    /\ UNCHANGED <<client, calls, chist, parser, sandbox, server, registry, sessions>>

Next ==
    \/ analyze_query_node
    \/ prepare_step_node
    \/ execute_sql_node
    \/ fix_sql_node
    \/ advance_step_node
    \/ generate_visualizations_node
    \/ generate_answer_node
    \/ run_agent_return

Spec == Init /\ [][Next]_vars

\* each node, once scheduled by the graph runner, runs to its return
FairSpec == Spec /\ WF_vars(Next)

\* the run is over: run_agent returned or raised
Terminated == pc \in {"returned", "raised"}


\* ------------------------------------------------------------------------
\* Model Client (src/llm/base.py, groq.py, gemini.py)
\* ------------------------------------------------------------------------
\* mutant: the fallback is taken even when it is already the current model
SwitchOk_mutC17(c) == Truthy(c.fallback_model)

\* switch_to_fallback, its condition
SwitchOk(c) == Truthy(c.fallback_model) /\ c.current_model # c.fallback_model

\* switch_to_fallback: the returned flag and the client afterwards
switch_to_fallback(c) ==
    IF SwitchOk(c)
    THEN [ok |-> TRUE, client |-> [c EXCEPT !.current_model = c.fallback_model]]
    ELSE [ok |-> FALSE, client |-> c]

\* mutant: the loop admits one more round
LoopCond_mutC15(retries, c) == retries <= c.max_retries + 1

\* generate, the loop condition  while retries <= self.max_retries
LoopCond(retries, c) == retries <= c.max_retries

\* generate, back at the loop head: another attempt, or the raise after it
LoopHead(retries, c) == IF LoopCond(retries, c) THEN "attempt" ELSE "raised"

\* mutant: the switch is made for the failing call, not on the client
GenerateExcept_mutC35(c, f) ==
    LET r == f.retries + 1
        sw == IF r = 1 THEN switch_to_fallback(c) ELSE [ok |-> FALSE, client |-> c]
    IN  [client |-> c,
         switched |-> sw.ok,
         frame |-> [f EXCEPT !.retries = r, !.pc = LoopHead(r, c),
                             !.failures = Append(@, [k |-> r,
                                                     before |-> c.current_model,
                                                     switched |-> sw.ok,
                                                     delay |-> 0,
                                                     retried |-> LoopCond(r, c)])]]

\* generate, the except clause: retries += 1; on the first failure try the
\* fallback and continue; else sleep 2 ** retries when retries remain; else
\* fall out of the clause to the loop head
GenerateExcept(c, f) ==
    LET r == f.retries + 1
        sw == IF r = 1 THEN switch_to_fallback(c) ELSE [ok |-> FALSE, client |-> c]
        sleeps == ~sw.ok /\ r <= c.max_retries
        next == IF sleeps THEN "sleeping" ELSE LoopHead(r, sw.client)
        entry == [k |-> r,
                  before |-> c.current_model,
                  switched |-> sw.ok,
                  delay |-> IF sleeps THEN 2 ^ r ELSE 0,
                  retried |-> next # "raised"]
    IN  [client |-> sw.client,
         switched |-> sw.ok,
         frame |-> [f EXCEPT !.retries = r, !.pc = next,
                             !.failures = Append(@, entry)]]

\* mutant: a failed stream is retried on the fallback
StreamExcept_mutC18(c, f) ==
    [client |-> switch_to_fallback(c).client,
     switched |-> switch_to_fallback(c).ok,
     frame |-> [f EXCEPT !.pc = "stream_attempt"]]

\* generate_stream, the except clause: re-raise
StreamExcept(c, f) ==
    [client |-> c, switched |-> FALSE, frame |-> [f EXCEPT !.pc = "raised"]]

\* the history after a method ran its except clause
AfterExcept(h, r, method) ==
    IF r.switched
    THEN [h EXCEPT !.switches = @ + 1, !.lastAssign = method]
    ELSE h

\* a request goes out with model=self.current_model
Request(f, c) == [f EXCEPT !.attempts = @ + 1, !.model = c.current_model]

\* generate is called: retries = 0 and the first test of the loop
generate_call(c) ==
    /\ calls[c].pc = "idle"
    /\ calls' = [calls EXCEPT ![c] =
                   [NoCall EXCEPT !.kind = "generate",
                                  !.pc = LoopHead(0, client)]]
    /\ UNCHANGED <<client, chist, workflow, parser, sandbox, server, registry, sessions>>

\* generate: the request of this round returns a completion
generate_attempt_ok(c) ==
    /\ calls[c].kind = "generate" /\ calls[c].pc = "attempt"
    /\ calls' = [calls EXCEPT ![c] =
                   [Request(calls[c], client) EXCEPT !.pc = "returned"]]
    /\ UNCHANGED <<client, chist, workflow, parser, sandbox, server, registry, sessions>>

\* generate: the request of this round raises
generate_attempt_fail(c) ==
    /\ calls[c].kind = "generate" /\ calls[c].pc = "attempt"
    /\ LET r == GenerateExcept(client, Request(calls[c], client))
       IN  /\ client' = r.client
           /\ calls' = [calls EXCEPT ![c] = r.frame]
           /\ chist' = AfterExcept(chist, r, "generate")
    /\ UNCHANGED <<workflow, parser, sandbox, server, registry, sessions>>

\* generate: asyncio.sleep is over, continue at the loop head
generate_wake(c) ==
    /\ calls[c].kind = "generate" /\ calls[c].pc = "sleeping"
    /\ calls' = [calls EXCEPT ![c].pc = LoopHead(calls[c].retries, client)]
    /\ UNCHANGED <<client, chist, workflow, parser, sandbox, server, registry, sessions>>

\* generate_stream is iterated for the first time
generate_stream_call(c) ==
    /\ calls[c].pc = "idle"
    /\ calls' = [calls EXCEPT ![c] =
                   [NoCall EXCEPT !.kind = "generate_stream",
                                  !.pc = "stream_attempt"]]
    /\ UNCHANGED <<client, chist, workflow, parser, sandbox, server, registry, sessions>>

\* generate_stream: the request is accepted and the stream opens
stream_open(c) ==
    /\ calls[c].kind = "generate_stream" /\ calls[c].pc = "stream_attempt"
    /\ calls' = [calls EXCEPT ![c] =
                   [Request(calls[c], client) EXCEPT !.pc = "streaming"]]
    /\ UNCHANGED <<client, chist, workflow, parser, sandbox, server, registry, sessions>>

\* generate_stream: the request raises before any chunk
stream_open_fail(c) ==
    /\ calls[c].kind = "generate_stream" /\ calls[c].pc = "stream_attempt"
    /\ LET r == StreamExcept(client, Request(calls[c], client))
       IN  /\ client' = r.client
           /\ calls' = [calls EXCEPT ![c] = r.frame]
           /\ chist' = AfterExcept(chist, r, "generate_stream")
    /\ UNCHANGED <<workflow, parser, sandbox, server, registry, sessions>>

\* generate_stream: one chunk is yielded
stream_chunk(c) ==
    /\ calls[c].kind = "generate_stream" /\ calls[c].pc = "streaming"
    /\ calls[c].chunks < MaxChunks
    /\ calls' = [calls EXCEPT ![c].chunks = @ + 1]
    /\ UNCHANGED <<client, chist, workflow, parser, sandbox, server, registry, sessions>>

\* generate_stream: the stream is exhausted
stream_end(c) ==
    /\ calls[c].kind = "generate_stream" /\ calls[c].pc = "streaming"
    /\ calls' = [calls EXCEPT ![c].pc = "returned"]
    /\ UNCHANGED <<client, chist, workflow, parser, sandbox, server, registry, sessions>>

\* generate_stream: the stream raises between chunks
stream_fail(c) ==
    /\ calls[c].kind = "generate_stream" /\ calls[c].pc = "streaming"
    /\ LET r == StreamExcept(client, calls[c])
       IN  /\ client' = r.client
           /\ calls' = [calls EXCEPT ![c] = r.frame]
           /\ chist' = AfterExcept(chist, r, "generate_stream")
    /\ UNCHANGED <<workflow, parser, sandbox, server, registry, sessions>>

\* the caller has the completion or the exception; the frame is gone
call_exit(c) ==
    /\ calls[c].pc \in {"returned", "raised"}
    /\ calls' = [calls EXCEPT ![c] = NoCall]
    /\ UNCHANGED <<client, chist, workflow, parser, sandbox, server, registry, sessions>>

\* reset_model
reset_model ==
    /\ client' = [client EXCEPT !.current_model = client.model_name]
    /\ chist' = [switches |-> 0, lastAssign |-> "reset_model"]
    /\ UNCHANGED <<calls, workflow, parser, sandbox, server, registry, sessions>>

\* a client is constructed with some configuration; no call is in progress
ClientInit ==
    /\ client \in Clients
    /\ calls = [c \in Callers |-> NoCall]
    /\ chist = InitialClientHist
    /\ pc = "analyze"
    /\ state = InitialState
    /\ trace = <<TraceEntry("Initialized with provider", "info")>>
    /\ response = NoResponse
    /\ hist = InitialHist
    /\ parser = NoParse
    /\ sessions = InitialSessions
    /\ registry = InitialRegistry
    /\ server = IdleServer
    /\ sandbox = NoRun

ClientNext ==
    \/ \E c \in Callers : generate_call(c)
    \/ \E c \in Callers : generate_attempt_ok(c)
    \/ \E c \in Callers : generate_attempt_fail(c)
    \/ \E c \in Callers : generate_wake(c)
    \/ \E c \in Callers : generate_stream_call(c)
    \/ \E c \in Callers : stream_open(c)
    \/ \E c \in Callers : stream_open_fail(c)
    \/ \E c \in Callers : stream_chunk(c)
    \/ \E c \in Callers : stream_end(c)
    \/ \E c \in Callers : stream_fail(c)
    \/ \E c \in Callers : call_exit(c)
    \/ reset_model

ClientSpec == ClientInit /\ [][ClientNext]_vars

\* the calls the workflow makes on a client: every node calls generate, no
\* node calls generate_stream, and nothing calls reset_model
WorkflowClientNext ==
    \/ \E c \in Callers : generate_call(c)
    \/ \E c \in Callers : generate_attempt_ok(c)
    \/ \E c \in Callers : generate_attempt_fail(c)
    \/ \E c \in Callers : generate_wake(c)
    \/ \E c \in Callers : call_exit(c)

WorkflowClientSpec == ClientInit /\ [][WorkflowClientNext]_vars

\* ------------------------------------------------------------------------
\* Reply parser (_parse_llm_json, src/agent/nodes.py)
\* ------------------------------------------------------------------------
MinOf(S) == CHOOSE x \in S : \A y \in S : x <= y
MaxOf(S) == CHOOSE x \in S : \A y \in S : x >= y

\* text[i:].startswith(p), 1-based
StartsWith(t, i, p) ==
    /\ i + Len(p) - 1 <= Len(t)
    /\ \A n \in 1..Len(p) : t[i + n - 1] = p[n]

\* the first index from i on whose character is outside S (Len(t) + 1: none)
Skip(t, i, S) ==
    CHOOSE j \in i..(Len(t) + 1) :
        /\ \A n \in i..(j - 1) : t[n] \in S
        /\ j = Len(t) + 1 \/ t[j] \notin S

\* the last index up to i whose character is outside S (0: none)
SkipBack(t, i, S) ==
    CHOOSE j \in 0..i :
        /\ \A n \in (j + 1)..i : t[n] \in S
        /\ j = 0 \/ t[j] \notin S

\* str.strip()
str_strip(t) == SubSeq(t, Skip(t, 1, Whitespace), SkipBack(t, Len(t), Whitespace))

\* re.sub(r'^```(?:json)?\s*', '', t)
StripOpeningFence(t) ==
    IF StartsWith(t, 1, Fence)
    THEN LET j == IF StartsWith(t, 4, K_json) THEN 8 ELSE 4
         IN  SubSeq(t, Skip(t, j, Whitespace), Len(t))
    ELSE t

\* re.sub(r'\s*```$', '', t), for a text that does not end in a newline
StripClosingFence(t) ==
    IF Len(t) >= 3 /\ StartsWith(t, Len(t) - 2, Fence)
    THEN SubSeq(t, 1, SkipBack(t, Len(t) - 3, Whitespace))
    ELSE t

\* ''.join(parts[lo:hi]), by halves
RECURSIVE Flatten(_, _, _)
Flatten(parts, lo, hi) ==
    IF lo > hi THEN <<>>
    ELSE IF lo = hi THEN parts[lo]
    ELSE Flatten(parts, lo, (lo + hi) \div 2)
         \o Flatten(parts, (lo + hi) \div 2 + 1, hi)

\* the replacement lambda of _fix_triple_quotes: newlines to spaces, the
\* quote character escaped
EscapeContent(t, q) ==
    Flatten([i \in 1..Len(t) |->
                IF t[i] \in {LF, CR} THEN <<" ">>
                ELSE IF t[i] = q THEN <<BSL, q>>
                ELSE <<t[i]>>], 1, Len(t))

\* the first index from i on where three q begin (0: none)
TripleFrom(t, i, q) ==
    LET S == {j \in i..Len(t) : StartsWith(t, j, <<q, q, q>>)}
    IN  IF S = {} THEN 0 ELSE MinOf(S)

\* re.sub(r'qqq\s*(.*?)\s*qqq', lambda, t, flags=re.DOTALL), from index i:
\* the leftmost opening that has a closing, its replacement, and the rest
RECURSIVE FixTriple(_, _, _)
FixTriple(t, i, q) ==
    LET opens == {j \in i..Len(t) :
                     /\ StartsWith(t, j, <<q, q, q>>)
                     /\ TripleFrom(t, Skip(t, j + 3, Whitespace), q) # 0}
        o == MinOf(opens)
        a == Skip(t, o + 3, Whitespace)
        c == TripleFrom(t, a, q)
    IN  IF opens = {} THEN SubSeq(t, i, Len(t))
        ELSE SubSeq(t, i, o - 1) \o <<DQ>>
             \o EscapeContent(SubSeq(t, a, SkipBack(t, c - 1, Whitespace)), q)
             \o <<DQ>> \o FixTriple(t, c + 3, q)

\* _fix_triple_quotes
fix_triple_quotes(t) == FixTriple(FixTriple(t, 1, DQ), 1, SQ)

\* re.search(r'\{.*\}', t, re.DOTALL): first { to last }, else t unchanged
BraceSpan(t) ==
    LET opens == {i \in 1..Len(t) : t[i] = "{"}
        closes == {i \in 1..Len(t) : t[i] = "}"}
    IN  IF opens # {} /\ closes # {} /\ MinOf(opens) < MaxOf(closes)
        THEN SubSeq(t, MinOf(opens), MaxOf(closes))
        ELSE t

\* _parse_llm_json up to the first json.loads: the text called cleaned
Cleaned(raw) ==
    BraceSpan(fix_triple_quotes(
        str_strip(StripClosingFence(StripOpeningFence(str_strip(raw))))))

\* json.loads -------------------------------------------------------------
Failed == [ok |-> FALSE, v |-> NoValue, i |-> 0]
Parsed(v, i) == [ok |-> TRUE, v |-> v, i |-> i]

\* the character an escape \c stands for ("" : not an escape; \b and \uXXXX
\* are left out, no reply holds them)
Unescape(c) ==
    CASE c = DQ -> DQ [] c = BSL -> BSL [] c = "/" -> "/"
      [] c = "n" -> LF [] c = "r" -> CR [] c = "t" -> TAB [] c = "f" -> FF
      [] OTHER -> ""

\* the character at i stands after an odd run of backslashes that begins at
\* start or later: it is the second character of an escape
Escaped(t, i, start) ==
    (i - 1 - MaxOf({start - 1, SkipBack(t, i - 1, {BSL})})) % 2 = 1

\* the first quote from start on that is not escaped (Len(t) + 1: none)
ClosingQuote(t, start) ==
    MinOf({j \in start..(Len(t) + 1) :
              j = Len(t) + 1 \/ (t[j] = DQ /\ ~Escaped(t, j, start))})

\* the string that begins at i and whose closing quote is at e: its
\* characters and the index after the quote; an unknown escape or a bare
\* control character fails
StringUpTo(t, i, e) ==
    IF /\ e <= Len(t)
       /\ \A k \in i..(e - 1) :
             IF Escaped(t, k, i) THEN Unescape(t[k]) # ""
             ELSE t[k] \notin StringControlChars
    THEN [ok |-> TRUE,
          s |-> Flatten([k \in 1..(e - i) |->
                            IF Escaped(t, i + k - 1, i)
                            THEN <<Unescape(t[i + k - 1])>>
                            ELSE IF t[i + k - 1] = BSL THEN <<>>
                            ELSE <<t[i + k - 1]>>], 1, e - i),
          i |-> e + 1]
    ELSE [ok |-> FALSE, s |-> <<>>, i |-> 0]

\* the rest of a string from index i
ScanString(t, i) == StringUpTo(t, i, ClosingQuote(t, i))

\* a scanned string as a value
StringValue(r) == IF r.ok THEN Parsed(JStr(r.s), r.i) ELSE Failed

\* a value from index i (after whitespace), the members of an object from
\* its next key at i, the items of an array from its next item at i; numbers
\* are left out, no reply holds a digit outside a string
RECURSIVE ParseValue(_, _), ParseMembers(_, _, _), ParseItems(_, _, _)
RECURSIVE MemberKey(_, _, _), MemberValue(_, _, _, _), ItemValue(_, _, _)
ParseValue(t, i0) ==
    LET i == Skip(t, i0, JsonWhitespace)
        j == Skip(t, i + 1, JsonWhitespace)
    IN  IF i > Len(t) THEN Failed
        ELSE CASE t[i] = DQ -> StringValue(ScanString(t, i + 1))
               [] t[i] = "{" ->
                    IF j <= Len(t) /\ t[j] = "}" THEN Parsed(JObj(<<>>), j + 1)
                    ELSE ParseMembers(t, j, <<>>)
               [] t[i] = "[" ->
                    IF j <= Len(t) /\ t[j] = "]" THEN Parsed(JArr(<<>>), j + 1)
                    ELSE ParseItems(t, j, <<>>)
               [] StartsWith(t, i, K_true) -> Parsed(JLit("true"), i + 4)
               [] StartsWith(t, i, K_false) -> Parsed(JLit("false"), i + 5)
               [] StartsWith(t, i, K_null) -> Parsed(JLit("null"), i + 4)
               [] OTHER -> Failed

ParseMembers(t, i, acc) ==
    IF i <= Len(t) /\ t[i] = DQ THEN MemberKey(t, acc, ScanString(t, i + 1))
    ELSE Failed

\* after the key k of a member: the colon and the value
MemberKey(t, acc, k) ==
    LET c == Skip(t, k.i, JsonWhitespace)
    IN  IF k.ok /\ c <= Len(t) /\ t[c] = ":"
        THEN MemberValue(t, acc, k.s, ParseValue(t, c + 1))
        ELSE Failed

\* after the value v of the member key: the end of the object, or a comma
\* and the next member
MemberValue(t, acc, key, v) ==
    LET e == Skip(t, v.i, JsonWhitespace)
    IN  CASE v.ok /\ e <= Len(t) /\ t[e] = "}" ->
               Parsed(JObj(Append(acc, <<key, v.v>>)), e + 1)
          [] v.ok /\ e <= Len(t) /\ t[e] = "," ->
               ParseMembers(t, Skip(t, e + 1, JsonWhitespace),
                            Append(acc, <<key, v.v>>))
          [] OTHER -> Failed

ParseItems(t, i, acc) == ItemValue(t, acc, ParseValue(t, i))

\* after the item v: the end of the array, or a comma and the next item
ItemValue(t, acc, v) ==
    LET e == Skip(t, v.i, JsonWhitespace)
    IN  CASE v.ok /\ e <= Len(t) /\ t[e] = "]" ->
               Parsed(JArr(Append(acc, v.v)), e + 1)
          [] v.ok /\ e <= Len(t) /\ t[e] = "," ->
               ParseItems(t, Skip(t, e + 1, JsonWhitespace), Append(acc, v.v))
          [] OTHER -> Failed

\* the value r read from the start of t is the whole document
Document(t, r) ==
    IF r.ok /\ Skip(t, r.i, JsonWhitespace) > Len(t)
    THEN [ok |-> TRUE, v |-> r.v]
    ELSE [ok |-> FALSE, v |-> NoValue]

\* json.loads(t): the value, or JSONDecodeError (ok FALSE)
json_loads(t) == Document(t, ParseValue(t, 1))

\* the cleanup stage ------------------------------------------------------
\* re.sub(r'[\x00-\x08\x0b\x0c\x0e-\x1f\x7f]', ' ', t)
ReplaceControl(t) ==
    [i \in 1..Len(t) |-> IF t[i] \in ControlChars THEN " " ELSE t[i]]

\* t.replace('\r\n', ' ').replace('\r', ' ').replace('\n', ' ')
ReplaceNewlines(t) ==
    Flatten([i \in 1..Len(t) |->
                IF t[i] = LF /\ i > 1 /\ t[i - 1] = CR THEN <<>>
                ELSE IF t[i] \in {CR, LF} THEN <<" ">>
                ELSE <<t[i]>>], 1, Len(t))

\* re.sub(r',\s*([}\]])', r'\1', t): a comma and the whitespace after it go
\* when a closing bracket follows
RemoveTrailingCommas(t) ==
    Flatten([i \in 1..Len(t) |->
                LET c == IF t[i] = "," THEN i ELSE SkipBack(t, i, Whitespace)
                    j == Skip(t, c + 1, Whitespace)
                IN  IF /\ t[i] \in Whitespace \cup {","}
                       /\ c >= 1 /\ t[c] = ","
                       /\ j <= Len(t) /\ t[j] \in {"}", "]"}
                    THEN <<>>
                    ELSE <<t[i]>>], 1, Len(t))

\* re.sub(r' {2,}', ' ', t)
CollapseSpaces(t) ==
    Flatten([i \in 1..Len(t) |->
                IF t[i] = " " /\ i > 1 /\ t[i - 1] = " " THEN <<>>
                ELSE <<t[i]>>], 1, Len(t))

\* the text called fixed
Fixed(cleaned) ==
    CollapseSpaces(RemoveTrailingCommas(ReplaceNewlines(ReplaceControl(cleaned))))

\* the single-quote stage -------------------------------------------------
\* "'" in fixed and '"' not in fixed[:5]
LooksSingleQuoted(fixed) ==
    /\ \E i \in 1..Len(fixed) : fixed[i] = SQ
    /\ \A i \in 1..Len(fixed) : i <= 5 => fixed[i] # DQ

\* fixed.replace("'", '"')
sq_fixed(fixed) == [i \in 1..Len(fixed) |-> IF fixed[i] = SQ THEN DQ ELSE fixed[i]]

\* the regex stage --------------------------------------------------------
\* (?:[^"\\]|\\.)*" from index i, closing quote at e: e, or 0 when there is
\* no quote or an escape is cut short by a newline
RawUpTo(t, i, e) ==
    IF e <= Len(t) /\ \A k \in i..(e - 1) : Escaped(t, k, i) => t[k] # LF
    THEN e ELSE 0

ScanRaw(t, i) == RawUpTo(t, i, ClosingQuote(t, i))

\* group 1 of a match whose string begins at a and closes at e
Group(t, a, e) ==
    IF e # 0 THEN [ok |-> TRUE, s |-> SubSeq(t, a, e - 1), i |-> e + 1]
    ELSE [ok |-> FALSE, s |-> <<>>, i |-> 0]

\* "key"\s*:\s*"((?:[^"\\]|\\.)*)" matched at index i: group 1 and the index
\* after the match
FieldAt(t, i, key) ==
    LET c == Skip(t, i + Len(key) + 2, Whitespace)
        q == Skip(t, c + 1, Whitespace)
    IN  IF /\ StartsWith(t, i, <<DQ>> \o key \o <<DQ>>)
           /\ c <= Len(t) /\ t[c] = ":"
           /\ q <= Len(t) /\ t[q] = DQ
        THEN Group(t, q + 1, ScanRaw(t, q + 1))
        ELSE [ok |-> FALSE, s |-> <<>>, i |-> 0]

\* the first index from i on where the pattern matches (Len(t) + 1: none)
NextField(t, i, key) ==
    MinOf({j \in i..(Len(t) + 1) : j = Len(t) + 1 \/ FieldAt(t, j, key).ok})

\* re.findall of that pattern, the leftmost match being at j: its group,
\* then the matches after it
RECURSIVE FindAll(_, _, _), Matches(_, _, _)
FindAll(t, j, key) ==
    IF j > Len(t) THEN <<>> ELSE Matches(t, key, FieldAt(t, j, key))

Matches(t, key, m) == <<m.s>> \o FindAll(t, NextField(t, m.i, key), key)

\* str(n)
RECURSIVE Decimal(_)
Decimal(n) ==
    IF n < 10 THEN <<Digits[n + 1]>>
    ELSE Decimal(n \div 10) \o <<Digits[(n % 10) + 1]>>

\* the plan rebuilt from the fields found
PlanOf(sql_matches, desc_matches, reasoning_matches) ==
    IF sql_matches # <<>>
    THEN [ok |-> TRUE,
          v |-> JObj(<< <<K_steps,
                          JArr([n \in 1..Len(sql_matches) |->
                                   JObj(<< <<K_description,
                                             JStr(IF n <= Len(desc_matches)
                                                  THEN desc_matches[n]
                                                  ELSE K_Step \o Decimal(n))>>,
                                           <<K_sql_query,
                                             JStr(sql_matches[n])>> >>)])>>,
                        <<K_reasoning,
                          JStr(IF reasoning_matches # <<>>
                               THEN reasoning_matches[1] ELSE <<>>)>> >>)]
    ELSE [ok |-> FALSE, v |-> NoValue]

\* the last resort: the plan rebuilt from the fields found in fixed
RegexExtract(fixed) ==
    PlanOf(FindAll(fixed, NextField(fixed, 1, K_sql_query), K_sql_query),
           FindAll(fixed, NextField(fixed, 1, K_description), K_description),
           FindAll(fixed, NextField(fixed, 1, K_reasoning), K_reasoning))

\* the stages -------------------------------------------------------------
\* the text a json.loads stage reads
StageText(stage, p) ==
    CASE stage = "direct" -> p.cleaned
      [] stage = "cleanup" -> p.fixed
      [] stage = "single_quote" -> sq_fixed(p.fixed)

\* what a stage yields for the frame p
Yield(stage, p) ==
    IF stage = "regex" THEN RegexExtract(p.fixed)
    ELSE json_loads(StageText(stage, p))

\* mutant: the regex extraction is tried before the single-quote substitution
NextStage_mutC19(stage, p) ==
    CASE stage = "direct" -> "cleanup"
      [] stage = "cleanup" -> "regex"
      [] stage = "regex" ->
             IF LooksSingleQuoted(p.fixed) THEN "single_quote" ELSE "raised"
      [] stage = "single_quote" -> "raised"

\* where control goes when a stage raised JSONDecodeError or found nothing
NextStage(stage, p) ==
    CASE stage = "direct" -> "cleanup"
      [] stage = "cleanup" ->
             IF LooksSingleQuoted(p.fixed) THEN "single_quote" ELSE "regex"
      [] stage = "single_quote" -> "regex"
      [] stage = "regex" -> "raised"

\* one stage of the frame p (fixed already holds the text the stage reads)
RunStage(stage, p) ==
    LET r == Yield(stage, p)
        q == [p EXCEPT !.ran = Append(@, stage)]
    IN  IF r.ok THEN [q EXCEPT !.pc = "returned", !.result = r.v]
        ELSE [q EXCEPT !.pc = NextStage(stage, q)]

\* _parse_llm_json is called: fences, triple quotes, brace span
parse_call ==
    /\ parser.pc = "called"
    /\ parser' = [parser EXCEPT !.pc = "direct", !.cleaned = Cleaned(parser.raw)]
    /\ UNCHANGED <<workflow, client, calls, chist, sandbox, server, registry, sessions>>

\* json.loads(cleaned)
stage_direct ==
    /\ parser.pc = "direct"
    /\ parser' = RunStage("direct", parser)
    /\ UNCHANGED <<workflow, client, calls, chist, sandbox, server, registry, sessions>>

\* the cleanup substitutions, then json.loads(fixed)
stage_cleanup ==
    /\ parser.pc = "cleanup"
    /\ parser' = RunStage("cleanup",
                          [parser EXCEPT !.fixed = Fixed(parser.cleaned)])
    /\ UNCHANGED <<workflow, client, calls, chist, sandbox, server, registry, sessions>>

\* json.loads(sq_fixed)
stage_single_quote ==
    /\ parser.pc = "single_quote"
    /\ parser' = RunStage("single_quote", parser)
    /\ UNCHANGED <<workflow, client, calls, chist, sandbox, server, registry, sessions>>

\* the regex extraction, and the raise after it
stage_regex ==
    /\ parser.pc = "regex"
    /\ parser' = RunStage("regex", parser)
    /\ UNCHANGED <<workflow, client, calls, chist, sandbox, server, registry, sessions>>

\* the parser is called with one of the replies
ParserInit ==
    /\ \E r \in Replies :
          parser = [NoParse EXCEPT !.pc = "called", !.raw = r.raw,
                                   !.kind = r.kind, !.value = r.value,
                                   !.ref = r.ref]
    /\ client = BaseLLMClient("primary", "fallback", MaxRetries)
    /\ calls = [c \in Callers |-> NoCall]
    /\ chist = InitialClientHist
    /\ pc = "analyze"
    /\ state = InitialState
    /\ trace = <<TraceEntry("Initialized with provider", "info")>>
    /\ response = NoResponse
    /\ hist = InitialHist
    /\ sandbox = NoRun
    /\ server = IdleServer
    /\ registry = InitialRegistry
    /\ sessions = InitialSessions

ParserNext ==
    \/ parse_call
    \/ stage_direct
    \/ stage_cleanup
    \/ stage_single_quote
    \/ stage_regex

ParserSpec == ParserInit /\ [][ParserNext]_vars

\* ------------------------------------------------------------------------
\* Sandboxed chart runner (src/sandbox/chart_executor.py)
\* ------------------------------------------------------------------------
\* stripped[:300]
ErrorLimit == 300

\* the characters of the first n pieces of t
RECURSIVE Chars(_, _)
Chars(t, n) == IF n = 0 THEN 0 ELSE Chars(t, n - 1) + Width(t[n])

\* t[:300]: the pieces that begin before the limit (a piece the limit cuts
\* leaves a fragment of itself)
Truncate(t) ==
    SubSeq(t, 1, MaxOf({n \in 0..Len(t) : n = 0 \/ Chars(t, n - 1) < ErrorLimit}))

\* stderr.strip().splitlines(): the lines from the first to the last that
\* is not blank
SplitLines(stderr) ==
    LET solid == {i \in 1..Len(stderr) : str_strip(stderr[i]) # <<>>}
    IN  IF solid = {} THEN <<>> ELSE SubSeq(stderr, MinOf(solid), MaxOf(solid))

\* re.match(r'^[A-Z]\w*(Error|Exception|Warning)', stripped)
LooksLikeException(stripped) ==
    stripped # <<>> /\ stripped[1] \in ExceptionNames

\* re.sub(r'File "[^"]*"', 'File "<chart>"', last)
ScrubFileRefs(t) ==
    [i \in 1..Len(t) |-> IF t[i] \in FileRefs THEN ChartRef ELSE t[i]]

\* _sanitize_error
sanitize_error(stderr) ==
    LET lines == SplitLines(stderr)
        hits == {i \in 1..Len(lines) : LooksLikeException(str_strip(lines[i]))}
        last == ScrubFileRefs(str_strip(lines[Len(lines)]))
    IN  IF lines = <<>> THEN <<"Unknown chart error">>
        ELSE IF hits # {} THEN Truncate(str_strip(lines[MaxOf(hits)]))
        ELSE IF last # <<>> THEN Truncate(last)
        ELSE <<"Chart generation failed">>

\* what the try body does with a CompletedProcess: a result, or an exception
Returns(result, path) ==
    [raised |-> FALSE, exc |-> <<>>, result |-> result, path |-> path]
Raises(exc, path) ==
    [raised |-> TRUE, exc |-> exc, result |-> NoResult, path |-> path]

\* mutant: the images of a child that exited non-zero are recovered
ParseOutput_mutC22(child) ==
    IF child.payload = "images" THEN Returns(
           ChartResult(child.images,
                       IF child.returncode # 0
                       THEN ErrorText(<<"Chart code failed: ">>
                                      \o sanitize_error(child.stderr))
                       ELSE NoError), "normal")
    ELSE Returns(
           ChartResult(<<>>, ErrorText(<<"No chart output produced. ">>
                                       \o sanitize_error(child.stderr))),
           "no_marker")

\* execute_chart_code, from the CompletedProcess to the return or the raise
ParseOutput(child) ==
    IF child.returncode # 0
    THEN Returns(ChartResult(<<>>, ErrorText(<<"Chart code failed: ">>
                                             \o sanitize_error(child.stderr))),
                 "nonzero")
    ELSE CASE child.payload = "no_marker" ->
                Returns(ChartResult(<<>>,
                            ErrorText(<<"No chart output produced. ">>
                                      \o sanitize_error(child.stderr))),
                        "no_marker")
           [] child.payload = "not_json" -> Raises(JsonErrorText, "bad_payload")
           [] child.payload = "not_an_object" -> Raises(GetErrorText, "bad_payload")
           [] child.payload = "no_images_key" ->
                Returns(ChartResult(<<>>, NoError), "normal")
           [] child.payload = "images" ->
                Returns(ChartResult(child.images, NoError), "normal")

\* os.unlink(tmp.name) inside try / except OSError: pass
os_unlink(f, platform) ==
    IF f.open /\ platform = "nt" THEN f
    ELSE [f EXCEPT !.exists = FALSE]

\* tempfile.NamedTemporaryFile(delete=False): the file exists, tmp holds it
execute_chart_code_call ==
    /\ sandbox.pc = "idle"
    /\ sandbox' = [sandbox EXCEPT !.pc = "write",
                                  !.tmp = [exists |-> TRUE, open |-> TRUE]]
    /\ UNCHANGED <<workflow, client, calls, chist, parser, server, registry, sessions>>

\* tmp.write(script); tmp.close()
tmp_write ==
    /\ sandbox.pc = "write"
    /\ \/ sandbox' = [sandbox EXCEPT !.pc = "run", !.tmp.open = FALSE]
       \/ \* write raises: close is not reached
          sandbox' = [sandbox EXCEPT !.pc = "except", !.exc = WriteErrorText,
                                     !.path = "exception"]
       \/ \* close raises after it released the handle
          sandbox' = [sandbox EXCEPT !.pc = "except", !.exc = CloseErrorText,
                                     !.tmp.open = FALSE, !.path = "exception"]
    /\ UNCHANGED <<workflow, client, calls, chist, parser, server, registry, sessions>>

\* subprocess.run(..., timeout=timeout)
subprocess_run ==
    /\ sandbox.pc = "run"
    /\ \E o \in ChildOutcomes :
         sandbox' =
           CASE o.how = "completed" ->
                  [sandbox EXCEPT !.pc = "parse", !.child = o]
             [] o.how = "timeout" ->
                  [sandbox EXCEPT !.pc = "timeout", !.child = o,
                                  !.path = "timeout"]
             [] o.how = "oserror" ->
                  [sandbox EXCEPT !.pc = "except", !.child = o,
                                  !.exc = SpawnErrorText, !.path = "exception"]
    /\ UNCHANGED <<workflow, client, calls, chist, parser, server, registry, sessions>>

\* the rest of the try body
parse_output ==
    /\ sandbox.pc = "parse"
    /\ LET r == ParseOutput(sandbox.child)
       IN  sandbox' = IF r.raised
                      THEN [sandbox EXCEPT !.pc = "except", !.exc = r.exc,
                                           !.path = r.path]
                      ELSE [sandbox EXCEPT !.pc = "finally",
                                           !.result = r.result, !.path = r.path]
    /\ UNCHANGED <<workflow, client, calls, chist, parser, server, registry, sessions>>

\* except subprocess.TimeoutExpired
except_timeout ==
    /\ sandbox.pc = "timeout"
    /\ sandbox' = [sandbox EXCEPT
                     !.pc = "finally",
                     !.result = ChartResult(<<>>,
                         ErrorText(<<"Chart generation timed out after 30s">>))]
    /\ UNCHANGED <<workflow, client, calls, chist, parser, server, registry, sessions>>

\* except Exception as e
except_exception ==
    /\ sandbox.pc = "except"
    /\ sandbox' = [sandbox EXCEPT
                     !.pc = "finally",
                     !.result = ChartResult(<<>>,
                         ErrorText(<<"Chart executor error: ">> \o sandbox.exc))]
    /\ UNCHANGED <<workflow, client, calls, chist, parser, server, registry, sessions>>

\* finally: the unlink, then the return
finally_unlink ==
    /\ sandbox.pc = "finally"
    /\ sandbox' = [sandbox EXCEPT !.pc = "returned",
                                  !.tmp = os_unlink(sandbox.tmp, sandbox.platform)]
    /\ UNCHANGED <<workflow, client, calls, chist, parser, server, registry, sessions>>

\* the runner is about to be called, on one of the platforms
SandboxInit ==
    /\ \E p \in Platforms : sandbox = [NoRun EXCEPT !.platform = p]
    /\ client = BaseLLMClient("primary", "fallback", MaxRetries)
    /\ calls = [c \in Callers |-> NoCall]
    /\ chist = InitialClientHist
    /\ pc = "analyze"
    /\ state = InitialState
    /\ trace = <<TraceEntry("Initialized with provider", "info")>>
    /\ response = NoResponse
    /\ hist = InitialHist
    /\ parser = NoParse
    /\ sessions = InitialSessions
    /\ registry = InitialRegistry
    /\ server = IdleServer

SandboxNext ==
    \/ execute_chart_code_call
    \/ tmp_write
    \/ subprocess_run
    \/ parse_output
    \/ except_timeout
    \/ except_exception
    \/ finally_unlink

SandboxSpec == SandboxInit /\ [][SandboxNext]_vars

\* ------------------------------------------------------------------------
\* Concurrent requests: the event loop, run_agent per request, the shared
\* connection
\* ------------------------------------------------------------------------
\* the requests are coroutines of one event loop: a coroutine keeps the
\* loop until it awaits, and the others run only while it is suspended.
\* The nodes are coroutines the graph runner awaits one after the other;
\* sql_tool, validate_query and execute_query are plain calls without await

\* mutant: execute_query gives up the loop between execute and description
AwaitPoints_mutC25 == {"graph.ainvoke", "conn.execute"}

\* the places where a request's coroutine gives up the event loop
AwaitPoints == {"graph.ainvoke"}

\* who holds the event loop after request r passed the given place
Control(point, r) == IF point \in AwaitPoints THEN None ELSE r

\* the event loop lets request r take its next step
Scheduled(r) == server.running \in {None, r}

\* mutant: the trace is one list shared by every call
NewList_mutC24(heap) == "list1"

\* `trace = []`: a list object no other reference points to
NewList(heap) == CHOOSE o \in Objects : ~heap[o].allocated

\* what a node returns: the new state dict, the entries it appended to the
\* trace list, and where the graph goes next
Outcome(s, log, next) == [state |-> s, log |-> log, pc |-> next]
RaiseEntry == TraceEntry("Agent execution failed", "error")
Routed(s, log, next) ==
    Outcome(s, IF next = "raised" THEN Append(log, RaiseEntry) ELSE log, next)

AnalyzeOutcomes(s) ==
    {Outcome(AnalyzeFailure(s), <<TraceEntry("Analysis failed", "error")>>,
             route_after_analysis(AnalyzeFailure(s))),
     Outcome(AnalyzeFailure(s),
             <<TraceEntry("Query analysis", "analysis"),
               TraceEntry("Analysis failed", "error")>>,
             route_after_analysis(AnalyzeFailure(s)))}
    \cup {Outcome(AnalyzeConversational(s, plan),
                  <<TraceEntry("Query analysis", "analysis")>>,
                  route_after_analysis(AnalyzeConversational(s, plan))) :
            plan \in {p \in RequestPlans :
                        Len(p.steps) = 0 /\ Truthy(p.conversational_answer)}}
    \cup {Routed(AnalyzePlan(s, plan),
                 <<TraceEntry("Query analysis", "analysis")>>,
                 route_after_analysis(AnalyzePlan(s, plan))) :
            plan \in {p \in RequestPlans :
                        ~(Len(p.steps) = 0 /\ Truthy(p.conversational_answer))}}

PrepareOutcomes(s) ==
    IF s.current_step < Len(s.steps) /\ ~s.steps[s.current_step + 1].isDict
    THEN {Outcome(s, <<RaiseEntry>>, "raised")}
    ELSE {Outcome(PrepareStep(s), <<>>, edge_prepare_step)}

FixOutcomes(s) ==
    {Outcome(FixFailure(s), <<>>, edge_fix_sql)}
    \cup {Outcome(FixSuccess(s, fixed_sql), <<>>, edge_fix_sql) :
            fixed_sql \in RequestFixReplies}

AdvanceOutcomes(s) == {Outcome(AdvanceStep(s), <<>>, edge_advance_step)}

VizOutcome(s, log, result) ==
    Outcome(VizFinish(s, result), VizFinishTrace(log, result), edge_generate_viz)

VizOutcomes(s) ==
    IF Len(s.all_query_results) = 0
    THEN {Outcome(VizNoChart(s), <<TraceEntry("Skipped visualization", "info")>>,
                  edge_generate_viz)}
    ELSE IF LabelRaises(s)
    THEN {Outcome(s, <<RaiseEntry>>, "raised")}
    ELSE
      {Outcome(VizNoChart(s), <<TraceEntry("Viz generation failed", "error")>>,
               edge_generate_viz),
       Outcome(VizNoChart(s),
               <<TraceEntry("Visualization code generation", "viz")>>,
               edge_generate_viz),
       Outcome(VizNoChart(s),
               <<TraceEntry("Visualization code generation", "viz"),
                 TraceEntry("Chart code failed", "error"),
                 TraceEntry("Viz generation failed", "error")>>,
               edge_generate_viz)}
      \cup {VizOutcome(s, <<TraceEntry("Visualization code generation", "viz")>>,
                       result) :
              result \in {x \in SandboxResults : ~NeedsRepair(x)}}
      \cup {VizOutcome(s, <<TraceEntry("Visualization code generation", "viz"),
                            TraceEntry("Chart code failed", "error")>>,
                       result) : result \in SandboxResults}

AnswerOutcomes(s) ==
    IF AnswerAlreadySet(s)
    THEN {Outcome(AnswerShortcut(s), <<>>, edge_answer)}
    ELSE IF LabelRaises(s)
    THEN {Outcome(s, <<RaiseEntry>>, "raised")}
    ELSE {Outcome(AnswerFailure(s), <<>>, edge_answer)}
         \cup {Outcome(AnswerSuccess(s, reply), <<>>, edge_answer) :
                 reply \in AnswerReplies}

\* the nodes that make no call on the connection
NodeOutcomes(node, s) ==
    CASE node = "analyze" -> AnalyzeOutcomes(s)
      [] node = "prepare_step" -> PrepareOutcomes(s)
      [] node = "fix_sql" -> FixOutcomes(s)
      [] node = "advance_step" -> AdvanceOutcomes(s)
      [] node = "generate_viz" -> VizOutcomes(s)
      [] node = "answer" -> AnswerOutcomes(s)

\* the node of request r returns to the graph runner: the runner keeps the
\* returned dict as the state of r, the appended entries are in r's list
Return(r, o) ==
    server' = [server EXCEPT
                 !.runs[r].state = o.state,
                 !.runs[r].pc = o.pc,
                 !.runs[r].call = "none",
                 !.heap[server.runs[r].trace].items = @ \o o.log,
                 !.running = Control("graph.ainvoke", r)]

\* chat calls run_agent for request r: a new trace list with its first
\* entry, a new initial state, a new graph, and graph.ainvoke
run_agent_call(r) ==
    /\ server.runs[r].pc = "idle"
    /\ Scheduled(r)
    /\ LET list == NewList(server.heap)
       IN  server' = [server EXCEPT
                 !.runs[r].pc = "analyze",
                 !.runs[r].state = InitialState,
                 !.runs[r].trace = list,
                 !.heap[list] =
                     [allocated |-> TRUE,
                      items |-> Log(@.items, "Initialized with provider", "info")],
                 !.running = Control("graph.ainvoke", r)]
    /\ UNCHANGED <<workflow, client, calls, chist, parser, sandbox, registry, sessions>>

\* the graph runner of request r runs a node to its return
run_node(r, node) ==
    /\ server.runs[r].pc = node
    /\ Scheduled(r)
    /\ \E o \in NodeOutcomes(node, server.runs[r].state) : Return(r, o)
    /\ UNCHANGED <<workflow, client, calls, chist, parser, sandbox, registry, sessions>>

\* execute_sql_node up to the return of validate_query: no query to run,
\* or EXPLAIN on the connection
sql_validate(r) ==
    /\ server.runs[r].pc = "execute_sql"
    /\ server.runs[r].call = "none"
    /\ Scheduled(r)
    /\ LET s == server.runs[r].state
       IN  IF ~Truthy(s.sql_query)
           THEN Return(r, Outcome(s, <<>>, route_after_sql(s)))
           ELSE IF ~db_validate_query(s.sql_query)
           THEN server' = [server EXCEPT
                    !.conn.by = r,
                    !.runs[r].state = ExecFailure(s, sql_tool(s.sql_query)),
                    !.runs[r].pc =
                        route_after_sql(ExecFailure(s, sql_tool(s.sql_query))),
                    !.running = Control("graph.ainvoke", r)]
           ELSE server' = [server EXCEPT
                    !.conn = Connection(ExplainColumns, r),
                    !.runs[r].call = "validated",
                    !.running = Control("validate_query", r)]
    /\ UNCHANGED <<workflow, client, calls, chist, parser, sandbox, registry, sessions>>

\* execute_query: self.conn.execute(query).fetchall(), or the exception the
\* tool turns into a failure result
sql_execute(r) ==
    /\ server.runs[r].call = "validated"
    /\ Scheduled(r)
    /\ LET s == server.runs[r].state
       IN  IF db_execute_ok(s.sql_query)
           THEN server' = [server EXCEPT
                    !.conn = Connection(db_columns(s.sql_query), r),
                    !.runs[r].fetched = db_rows(s.sql_query),
                    !.runs[r].call = "executed",
                    !.running = Control("conn.execute", r)]
           ELSE server' = [server EXCEPT
                    !.conn.by = r,
                    !.runs[r].state = ExecFailure(s, sql_tool(s.sql_query)),
                    !.runs[r].pc =
                        route_after_sql(ExecFailure(s, sql_tool(s.sql_query))),
                    !.runs[r].call = "none",
                    !.running = Control("graph.ainvoke", r)]
    /\ UNCHANGED <<workflow, client, calls, chist, parser, sandbox, registry, sessions>>

\* execute_query from the read of self.conn.description to the return of
\* execute_sql_node: the rows become dicts keyed by the description
sql_description(r) ==
    /\ server.runs[r].call = "executed"
    /\ Scheduled(r)
    /\ LET s == server.runs[r].state
           result == [success |-> TRUE, error |-> None,
                      results |-> server.runs[r].fetched]
       IN  server' = [server EXCEPT
                 !.runs[r].state = ExecSuccess(s, result),
                 !.runs[r].pc = route_after_sql(ExecSuccess(s, result)),
                 !.runs[r].call = "none",
                 !.runs[r].executed = s.sql_query,
                 !.runs[r].columns = server.conn.description,
                 !.running = Control("graph.ainvoke", r)]
    /\ UNCHANGED <<workflow, client, calls, chist, parser, sandbox, registry, sessions>>

\* run_agent returns the dict built from the final state of request r
run_agent_end(r) ==
    /\ server.runs[r].pc = "END"
    /\ Scheduled(r)
    /\ server' = [server EXCEPT
             !.runs[r].response =
                 Response(server.runs[r].state,
                          server.heap[server.runs[r].trace].items),
             !.runs[r].pc = "returned",
             !.running = None]
    /\ UNCHANGED <<workflow, client, calls, chist, parser, sandbox, registry, sessions>>

ServerInit ==
    /\ server = IdleServer
    /\ client = BaseLLMClient("primary", "fallback", MaxRetries)
    /\ calls = [c \in Callers |-> NoCall]
    /\ chist = InitialClientHist
    /\ pc = "analyze"
    /\ state = InitialState
    /\ trace = <<TraceEntry("Initialized with provider", "info")>>
    /\ response = NoResponse
    /\ hist = InitialHist
    /\ parser = NoParse
    /\ sessions = InitialSessions
    /\ registry = InitialRegistry
    /\ sandbox = NoRun

ServerNext ==
    \/ \E r \in RunIds : run_agent_call(r)
    \/ \E r \in RunIds : run_node(r, "analyze")
    \/ \E r \in RunIds : run_node(r, "prepare_step")
    \/ \E r \in RunIds : sql_validate(r)
    \/ \E r \in RunIds : sql_execute(r)
    \/ \E r \in RunIds : sql_description(r)
    \/ \E r \in RunIds : run_node(r, "fix_sql")
    \/ \E r \in RunIds : run_node(r, "advance_step")
    \/ \E r \in RunIds : run_node(r, "generate_viz")
    \/ \E r \in RunIds : run_node(r, "answer")
    \/ \E r \in RunIds : run_agent_end(r)

ServerSpec == ServerInit /\ [][ServerNext]_vars

\* ------------------------------------------------------------------------
\* Key rotation
\* ------------------------------------------------------------------------
\* the exception update_api_key raises for a provider it does not know
ValueError == "ValueError"

\* mutant: the client of the named provider is built anew
update_api_key_mutC36(clients, provider, new_key) ==
    IF provider \in Providers
    THEN [raised |-> None,
          clients |-> [clients EXCEPT ![provider] =
                          ProviderClient(provider, new_key)]]
    ELSE [raised |-> ValueError, clients |-> clients]

\* update_api_key: the assignments of the matching branch, or the raise
update_api_key(clients, provider, new_key) ==
    IF provider = "gemini"
    THEN [raised |-> None,
          clients |-> [clients EXCEPT !["gemini"].api_key = new_key,
                                      !["gemini"].client = Handle(new_key)]]
    ELSE IF provider = "groq"
    THEN [raised |-> None,
          clients |-> [clients EXCEPT !["groq"].api_key = new_key,
                                      !["groq"].client = Handle(new_key),
                                      !["groq"].sync_client = Handle(new_key)]]
    ELSE [raised |-> ValueError, clients |-> clients]

\* how many key updates a behaviour of the model makes
MaxUpdates == 2

\* PUT /settings/keys: 400 without a provider or a key, else the update of
\* the live client, with ValueError answered by 400
update_keys ==
    /\ registry.last.n < MaxUpdates
    /\ \E provider \in ProviderTags, body_key \in BodyKeys :
         LET key == strip_key(body_key)
             r == update_api_key(registry.clients, provider, key)
             done(status, clients) ==
                 registry' = [clients |-> clients,
                              last |-> [provider |-> provider, key |-> key,
                                        status |-> status,
                                        n |-> registry.last.n + 1]]
         IN  IF provider = "" \/ key = ""
             THEN done("400 required", registry.clients)
             ELSE IF r.raised = ValueError
             THEN done("400 ValueError", r.clients)
             ELSE done("updated", r.clients)
    /\ UNCHANGED <<workflow, client, calls, chist, parser, sandbox, server, sessions>>

\* a failed attempt of a generate call on the client of provider p makes
\* the client switch to its fallback model
provider_switch(p) ==
    /\ switch_to_fallback(registry.clients[p].base).ok
    /\ registry' = [registry EXCEPT !.clients[p].base =
                        switch_to_fallback(registry.clients[p].base).client]
    /\ UNCHANGED <<workflow, client, calls, chist, parser, sandbox, server, sessions>>

RegistryInit ==
    /\ registry = InitialRegistry
    /\ server = IdleServer
    /\ client = BaseLLMClient("primary", "fallback", MaxRetries)
    /\ calls = [c \in Callers |-> NoCall]
    /\ chist = InitialClientHist
    /\ pc = "analyze"
    /\ state = InitialState
    /\ trace = <<TraceEntry("Initialized with provider", "info")>>
    /\ response = NoResponse
    /\ hist = InitialHist
    /\ parser = NoParse
    /\ sessions = InitialSessions
    /\ sandbox = NoRun

RegistryNext ==
    \/ update_keys
    \/ \E p \in Providers : provider_switch(p)

RegistrySpec == RegistryInit /\ [][RegistryNext]_vars

Range(f) == {f[i] : i \in DOMAIN f}

\* ------------------------------------------------------------------------
\* Sessions
\* ------------------------------------------------------------------------
\* ConversationHistory.__init__: the folders are made, messages.json is
\* loaded when it is there
NewHistory(folder) ==
    [folder |-> [folder EXCEPT !.exists = TRUE],
     object |-> [created |-> TRUE,
                 messages |-> IF folder.exists /\ folder.has_messages
                              THEN folder.messages ELSE <<>>]]

\* get_or_create_session: the cached object, or a new one put in the cache
get_or_create_session(s) ==
    IF s.cache # None
    THEN [sessions |-> s, history |-> s.cache]
    ELSE LET h == CHOOSE x \in Histories : ~s.objects[x].created
             new == NewHistory(s.folder)
         IN  [sessions |-> [s EXCEPT !.cache = h, !.objects[h] = new.object,
                                     !.folder = new.folder],
              history |-> h]

\* the model constructs no more objects than Histories has
CanGet(s) == s.cache # None \/ \E x \in Histories : ~s.objects[x].created

\* messages[-max_messages:]
Trim(messages) ==
    IF Len(messages) > MaxMessages
    THEN SubSeq(messages, Len(messages) - MaxMessages + 1, Len(messages))
    ELSE messages

\* add_message on object h: append, trim, then write messages.json; open
\* raises when the folder is gone, after the list was appended to
add_message(s, h, msg) ==
    LET messages == Trim(Append(s.objects[h].messages, msg))
        appended == [s EXCEPT !.objects[h].messages = messages]
    IN  IF ~s.folder.exists
        THEN [raised |-> TRUE, sessions |-> appended]
        ELSE [raised |-> FALSE,
              sessions |-> [appended EXCEPT !.folder.has_messages = TRUE,
                                            !.folder.messages = messages]]

\* save_visualizations: the file numbers it writes, start_idx + i for the
\* entries i (from 0) that are not empty
VizNumbers(folder, visualizations) ==
    {Cardinality(folder.viz) + 1 + (i - 1) :
        i \in {j \in 1..Len(visualizations) : visualizations[j] # ""}}

\* save_response after the answer was added: save_trace writes a file (the
\* trace of a run is never empty), save_visualizations writes its files,
\* _save_meta writes meta.json; open raises when the folder is gone
save_response(s, result) ==
    IF ~s.folder.exists
    THEN [raised |-> TRUE, sessions |-> s]
    ELSE [raised |-> FALSE,
          sessions |-> [s EXCEPT
              !.folder.viz = @ \cup VizNumbers(s.folder, result.visualizations),
              !.written = VizNumbers(s.folder, result.visualizations),
              !.existing = s.folder.viz]]

\* chat up to `await run_agent`: the session object, the user message
chat_call(q) ==
    /\ sessions.chats[q].pc = "idle"
    /\ CanGet(sessions)
    /\ LET g == get_or_create_session(sessions)
           a == add_message(g.sessions, g.history, Message("user", q))
       IN  sessions' = [a.sessions EXCEPT
                           !.chats[q] = [pc |-> IF a.raised THEN "failed"
                                                ELSE "awaiting",
                                         history |-> g.history],
                           !.written = {}, !.existing = {}]
    /\ UNCHANGED <<workflow, client, calls, chist, parser, sandbox, server, registry>>

\* chat from the return of run_agent: the assistant message when there is
\* an answer, save_response, the reply; any exception becomes an HTTP error
chat_resume(q) ==
    /\ sessions.chats[q].pc = "awaiting"
    /\ \E result \in RunResults :
         LET h == sessions.chats[q].history
             cleared == [sessions EXCEPT !.written = {}, !.existing = {}]
             a == IF result.answer # ""
                  THEN add_message(cleared, h, Message("assistant", q))
                  ELSE [raised |-> FALSE, sessions |-> cleared]
             r == save_response(a.sessions, result)
         IN  IF result.raised
             THEN sessions' = [cleared EXCEPT !.chats[q].pc = "failed"]
             ELSE IF a.raised
             THEN sessions' = [a.sessions EXCEPT !.chats[q].pc = "failed"]
             ELSE IF r.raised
             THEN sessions' = [r.sessions EXCEPT !.chats[q].pc = "failed"]
             ELSE sessions' = [r.sessions EXCEPT !.chats[q].pc = "done"]
    /\ UNCHANGED <<workflow, client, calls, chist, parser, sandbox, server, registry>>

\* DELETE /sessions/{id}: delete_session gets the object (constructing one
\* when none is cached), removes the folder, and drops the cache entry
delete_session ==
    /\ CanGet(sessions)
    /\ LET g == get_or_create_session(sessions)
       IN  sessions' = [g.sessions EXCEPT
               !.folder = NoFolder,
               !.cache = None,
               !.deleted = @ \cup Range(g.sessions.objects[g.history].messages)
                             \cup Range(sessions.folder.messages),
               !.written = {}, !.existing = {}]
    /\ UNCHANGED <<workflow, client, calls, chist, parser, sandbox, server, registry>>

\* GET /sessions/{id}/history: get_or_create_session and a read
get_session_history ==
    /\ CanGet(sessions)
    /\ sessions' = [get_or_create_session(sessions).sessions EXCEPT
                       !.written = {}, !.existing = {}]
    /\ sessions' # sessions
    /\ UNCHANGED <<workflow, client, calls, chist, parser, sandbox, server, registry>>

SessionInit ==
    /\ sessions = InitialSessions
    /\ registry = InitialRegistry
    /\ server = IdleServer
    /\ client = BaseLLMClient("primary", "fallback", MaxRetries)
    /\ calls = [c \in Callers |-> NoCall]
    /\ chist = InitialClientHist
    /\ pc = "analyze"
    /\ state = InitialState
    /\ trace = <<TraceEntry("Initialized with provider", "info")>>
    /\ response = NoResponse
    /\ hist = InitialHist
    /\ parser = NoParse
    /\ sandbox = NoRun

SessionNext ==
    \/ \E q \in Chats : chat_call(q)
    \/ \E q \in Chats : chat_resume(q)
    \/ delete_session
    \/ get_session_history

SessionSpec == SessionInit /\ [][SessionNext]_vars

\* ------------------------------------------------------------------------
\* Properties
\* ------------------------------------------------------------------------

\* C1: in every reachable state the accumulated query list and the accumulated
\* result-set list have the same length, in the state and in the response.
C1_AccumulatedListsSameLength ==
    /\ Len(state.sql_queries) = Len(state.all_query_results)
    /\ response.returned =>
         Len(response.sql_queries) = Len(response.all_query_results)

\* C1 witness: a step's query failed, was repaired and then succeeded.
C1_Witness ==
    /\ hist.execs[0] >= 2
    /\ hist.failedTexts[0] # {}
    /\ Len(state.sql_queries) = 1
    /\ Len(state.all_query_results) = 1

\* C2: after execute_sql, fix_sql is chosen exactly when error is set and
\* retries <= 3; no plan step enters fix_sql more than 3 times or has its query
\* executed more than 4 times.
C2_RepairLoopBounded ==
    /\ [](\A i \in StepIndexes : hist.fixes[i] <= 3 /\ hist.execs[i] <= 4)
    /\ [][pc = "execute_sql" =>
            (pc' = "fix_sql" <=> (Truthy(state'.error) /\ state'.retries <= 3))]_vars

\* C2 witness: a step went through 3 repairs and 4 executions and moved on.
C2_Witness ==
    /\ hist.fixes[0] = 3
    /\ hist.execs[0] = 4
    /\ pc \in {"advance_step", "generate_viz"}

\* C3: when a step's execution fails with the retries used up (3 repairs
\* behind it), the next node is advance_step if a later step exists and
\* generate_viz otherwise, and none of the query texts tried for that step is
\* in the accumulated queries, which are as long as when the step was prepared.
C3_ExhaustedStepSkipped ==
    /\ [][(pc = "execute_sql" /\ Truthy(state'.error) /\ state'.retries > 3) =>
            /\ pc' = IF state.current_step < Len(state.steps) - 1
                     THEN "advance_step" ELSE "generate_viz"
            /\ Len(state'.sql_queries) = hist.lenAtPrepare[state.current_step]
            /\ hist'.fixes[state.current_step] = 3]_vars
    /\ [](\A i \in hist.exhausted :
            \A q \in hist.failedTexts[i] : q \notin Range(state.sql_queries))

\* C3 witness: both steps of a two-step plan ran out of retries and the run
\* went on to the visualization stage.
C3_Witness ==
    /\ {0, 1} \subseteq hist.exhausted
    /\ pc = "generate_viz"


\* C4: every run terminates (run_agent returns or raises) after finitely many
\* transitions, and no plan step has its query executed more than 4 times.
C4_RunTerminates ==
    /\ <>Terminated
    /\ [](\A i \in StepIndexes : hist.execs[i] <= 4)

\* C4 witness: a run that used every retry of two steps has ended.
C4_Witness ==
    /\ pc = "returned"
    /\ hist.execs[0] = 4
    /\ hist.execs[1] = 4

\* C5: run_agent always hands its caller a response object; no outcome of
\* planning, repair, execution, visualization or answer generation reaches the
\* caller as a raised exception.
C5_NeverRaisesToCaller == pc # "raised"

C7_FixFailureFatal ==
    hist.fixFailed =>
        /\ hist.afterFixFail \cap
             {"execute_sql", "fix_sql", "generate_viz", "answer"} = {}
        /\ pc = "returned" => Truthy(response.error) /\ response.answer = ""

\* C8: when the model call in GeneratingAnswer fails, the run goes to END with
\* error set and an empty answer, the accumulated queries, result sets and
\* visualizations are left as they were and are returned so, and the answer
\* model call is made at most once.
C8_AnswerFailureTerminal ==
    /\ [][(pc = "answer" /\ hist'.answerFailed) =>
            /\ pc' = "END"
            /\ Truthy(state'.error)
            /\ state'.answer = ""
            /\ state'.sql_queries = state.sql_queries
            /\ state'.all_query_results = state.all_query_results
            /\ state'.visualizations = state.visualizations]_vars
    /\ [](hist.nAnswerCalls <= 1)
    /\ []((hist.answerFailed /\ pc = "returned") =>
            /\ Truthy(response.error)
            /\ response.answer = ""
            /\ response.sql_queries = state.sql_queries
            /\ response.all_query_results = state.all_query_results
            /\ response.visualizations = state.visualizations)

\* C8 witness: the answer call failed after queries ran and a chart was drawn,
\* and the caller got both.
C8_Witness ==
    /\ hist.answerFailed
    /\ pc = "returned"
    /\ Len(response.sql_queries) > 0
    /\ Len(response.visualizations) > 0

\* C9: when the planning reply has no steps and a direct answer, the run ends
\* with exactly that answer and empty query, result-set and visualization
\* lists; no query is executed, no chart code is requested or run and no
\* answer model call is made.
C9_ConversationalShortcut ==
    hist.conversational # None =>
        /\ pc \in {"answer", "END", "returned"}
        /\ state.answer = hist.conversational
        /\ state.sql_queries = <<>> /\ state.all_query_results = <<>>
        /\ state.visualizations = <<>>
        /\ \A i \in StepIndexes : hist.execs[i] = 0 /\ hist.fixes[i] = 0
        /\ hist.nVizCalls = 0 /\ hist.nSandbox = 0 /\ hist.nAnswerCalls = 0
        /\ pc = "returned" =>
             /\ response.answer = hist.conversational
             /\ response.sql_queries = <<>>
             /\ response.all_query_results = <<>>
             /\ response.visualizations = <<>>

\* C9 witness: a conversational run has returned.
C9_Witness ==
    /\ hist.conversational = "hello"
    /\ pc = "returned"
    /\ response.answer = "hello"

\* C10: whatever happens in generate_viz, the next node is answer, the
\* accumulated queries and result sets are unchanged and error is unchanged.
C10_VizNeverAborts ==
    [][pc = "generate_viz" =>
         /\ pc' = "answer"
         /\ state'.sql_queries = state.sql_queries
         /\ state'.all_query_results = state.all_query_results
         /\ state'.error = state.error]_vars

\* C10 witness: the first sandbox run failed, the repaired code ran and gave
\* no chart either, and the run is at the answer node.
C10_Witness ==
    /\ pc = "answer"
    /\ hist.vizFailed
    /\ hist.nSandbox = 2
    /\ state.visualizations = <<>>


\* C11: in one run the chart sandbox is invoked at most twice and the chart
\* repair model call is made at most once; the repair is requested only when
\* the first sandbox run reported an error, and the second sandbox run (of the
\* repaired code) is never followed by another repair or run.
C11_ChartRepairAtMostOnce ==
    /\ hist.nSandbox <= 2
    /\ hist.nVizFix <= 1
    /\ hist.nVizCalls <= 1
    /\ hist.nVizFix = 1 => hist.firstSandboxErr /\ hist.nSandbox >= 1
    /\ hist.nSandbox = 2 => hist.nVizFix = 1

\* C11 witness: the first run failed, the repaired code was run and the run of
\* the workflow has returned.
C11_Witness ==
    /\ hist.nSandbox = 2
    /\ hist.nVizFix = 1
    /\ hist.firstSandboxErr
    /\ pc = "returned"


\* the nodes from generate_viz on, and where a run can go from them
FromViz == {"generate_viz", "answer", "END", "returned"}
FromVizOrRaised == FromViz \cup {"raised"}

\* C12 (as claimed): generate_viz is entered only from execute_sql, with the
\* current step the last plan step and that step succeeded or out of retries;
\* once generate_viz is entered no step node runs again.
C12_VizAfterLastStepDone ==
    /\ [][pc' = "generate_viz" =>
            /\ pc = "execute_sql"
            /\ state'.current_step = Len(state'.steps) - 1
            /\ \/ hist'.okCount[state'.current_step] = 1
               \/ state'.current_step \in hist'.exhausted]_vars
    /\ [][(pc \in FromViz) => (pc' \in FromVizOrRaised)]_vars

\* C12 (amended): as claimed, except that the last step may also have had no
\* query text to execute (none in the plan, or an empty repair reply), in
\* which case execute_sql did nothing and the step neither succeeded nor used
\* up its retries.
C12_VizAfterLastStepLeft ==
    /\ [][pc' = "generate_viz" =>
            /\ pc = "execute_sql"
            /\ state'.current_step = Len(state'.steps) - 1
            /\ \/ hist'.okCount[state'.current_step] = 1
               \/ state'.current_step \in hist'.exhausted
               \/ ~Truthy(state.sql_query) /\ state' = state]_vars
    /\ [][(pc \in FromViz) => (pc' \in FromVizOrRaised)]_vars

\* C12 witness: a two-step plan whose last step has no query text reached
\* generate_viz after the first step succeeded.
C12_Witness ==
    /\ pc = "generate_viz"
    /\ Len(state.steps) = 2
    /\ state.current_step = 1
    /\ hist.okCount[0] = 1
    /\ hist.okCount[1] = 0
    /\ 1 \notin hist.exhausted


\* C13: the accumulated queries are exactly the query texts whose execution
\* succeeded, in order; no text whose execution failed is among them, so after
\* a repair only the repaired text is accumulated, not the original one.
C13_OnlySuccessfulQueriesAccumulated ==
    /\ state.sql_queries = hist.okTexts
    /\ \A k \in 1..Len(state.sql_queries) :
           sql_tool(state.sql_queries[k]).success
    /\ \A i \in StepIndexes :
           hist.failedTexts[i] \cap Range(state.sql_queries) = {}

\* C13 witness: the query of the first step failed, was repaired to a text
\* that ran, and the run has returned with the repaired text alone.
C13_Witness ==
    /\ pc = "returned"
    /\ hist.failedTexts[0] = {"bad1"}
    /\ hist.fixes[0] = 1
    /\ response.sql_queries = <<"good1">>
    /\ state.steps[1].sql_query = "good1"

\* the steps of the plan, as values of current_step
PlanIndexes == {i \in StepIndexes : i < Len(state.steps)}

\* C14: a plan step adds at most one entry to the accumulated queries and
\* result sets whatever its number of repairs: each step has at most one
\* successful execution, the lists hold one entry per successful step, the
\* current step has added at most one entry since it was prepared, and when
\* the run returns with every step succeeded len(sql_queries) = len(steps).
C14_OneEntryPerStep ==
    /\ \A i \in StepIndexes : hist.okCount[i] <= 1
    /\ Len(state.sql_queries)
         = Cardinality({i \in StepIndexes : hist.okCount[i] = 1})
    /\ pc \in {"execute_sql", "fix_sql", "advance_step"} =>
         Len(state.sql_queries)
           = hist.lenAtPrepare[state.current_step]
               + hist.okCount[state.current_step]
    /\ (pc = "returned" /\ \A i \in PlanIndexes : hist.okCount[i] = 1) =>
         /\ Len(response.sql_queries) = Len(state.steps)
         /\ Len(response.all_query_results) = Len(state.steps)

\* C14 witness: in a two-step plan the second step failed once, was repaired
\* once and then succeeded; the run returned two entries.
C14_Witness ==
    /\ pc = "returned"
    /\ Len(state.steps) = 2
    /\ hist.okCount[0] = 1 /\ hist.okCount[1] = 1
    /\ hist.execs[1] = 2 /\ hist.fixes[1] = 1
    /\ hist.lenAtPrepare[1] = 1
    /\ Len(response.sql_queries) = 2


\* the calls of generate / of generate_stream in progress or just over
GenerateCalls == {c \in Callers : calls[c].kind = "generate"}
StreamCalls == {c \in Callers : calls[c].kind = "generate_stream"}

\* C15 (as stated): a single generate call makes at most max_retries backend
\* attempts before it fails with the generation error.
C15_AtMostMaxRetriesAttempts ==
    \A c \in GenerateCalls : calls[c].attempts <= client.max_retries

\* C15 (amended): a single generate call makes at most max_retries + 1
\* backend attempts, the first one and max_retries retries, and it fails with
\* the generation error only after max_retries + 1 attempts have all failed.
C15_AtMostMaxRetriesPlusOneAttempts ==
    \A c \in GenerateCalls :
        /\ calls[c].attempts <= client.max_retries + 1
        /\ calls[c].pc = "raised" =>
              /\ calls[c].attempts = client.max_retries + 1
              /\ Len(calls[c].failures) = calls[c].attempts

\* C15 witness: with max_retries = 2 a call failed after three attempts
C15_Witness ==
    \E c \in GenerateCalls :
        /\ client.max_retries = 2
        /\ calls[c].pc = "raised"
        /\ calls[c].attempts = 3

\* a fallback is configured and is not the model that was current
FallbackUnused(e) ==
    Truthy(client.fallback_model) /\ e.before # client.fallback_model

\* C16: in generate, when the first attempt fails and a fallback is
\* configured and not already current, the client switches to it and retries
\* at once, with no backoff; every other failed attempt that is followed by a
\* retry has a backoff of 2^k seconds before the retry, k the number of
\* failures so far in the call; no delay follows the last failed attempt.
C16_FallbackThenBackoff ==
    \A c \in GenerateCalls :
        \A n \in 1..Len(calls[c].failures) :
            LET e == calls[c].failures[n]
            IN  /\ e.k = n
                /\ IF n = 1 /\ FallbackUnused(e)
                   THEN e.switched /\ e.retried /\ e.delay = 0
                   ELSE /\ ~e.switched
                        /\ e.retried => e.delay = 2 ^ n
                /\ ~e.retried => e.delay = 0

\* C17: the current model is the primary or the configured fallback; it is
\* the fallback from a switch until reset_model, whatever calls are made
\* (generate and generate_stream never set it back to the primary, and every
\* request goes out with the current model); at most one switch happens
\* between two resets.
C17_CurrentModelPersists ==
    /\ [](client.current_model \in {client.model_name, client.fallback_model})
    /\ [](chist.switches <= 1)
    /\ [](chist.switches = 1 => client.current_model = client.fallback_model)
    /\ [][(client'.current_model # client.current_model) =>
             \/ /\ client'.current_model = client.fallback_model
                /\ chist'.lastAssign = "generate"
                /\ chist'.switches = chist.switches + 1
             \/ /\ client'.current_model = client.model_name
                /\ chist'.lastAssign = "reset_model"]_vars
    /\ [][\A c \in Callers :
             (calls'[c].attempts = calls[c].attempts + 1) =>
                 calls'[c].model = client.current_model]_vars

\* C17 witness: after a switch made by one call, another call that never
\* failed got its completion from the fallback
C17_Witness ==
    \E c \in GenerateCalls \cup StreamCalls :
        /\ client.fallback_model = "fallback"
        /\ chist.switches = 1
        /\ calls[c].pc = "returned"
        /\ calls[c].failures = <<>>
        /\ calls[c].model = "fallback"

\* C18: generate_stream makes exactly one backend attempt per call; a failure
\* before or during the stream ends the call, with no retry, no backoff and
\* no switch of the current model.
C18_StreamSingleAttempt ==
    /\ [](\A c \in StreamCalls :
            /\ calls[c].attempts <= 1
            /\ calls[c].pc \in {"streaming", "returned", "raised"} =>
                  calls[c].attempts = 1
            /\ calls[c].retries = 0
            /\ calls[c].failures = <<>>)
    /\ [][\A c \in Callers :
             (calls[c].kind = "generate_stream" /\ calls'[c] # calls[c]) =>
                 /\ client' = client
                 /\ calls[c].pc \in {"stream_attempt", "streaming"} =>
                       calls'[c].pc \in {"streaming", "returned", "raised"}
                 /\ calls[c].pc = "raised" => calls'[c] = NoCall]_vars

\* C18 witness: a stream failed after a chunk while the fallback was
\* configured and unused and retries were allowed; the call is over
C18_Witness ==
    \E c \in StreamCalls :
        /\ calls[c].pc = "raised"
        /\ calls[c].chunks >= 1
        /\ calls[c].attempts = 1
        /\ SwitchOk(client)
        /\ client.max_retries >= 1

\* the stages in the order of the source, and the place of a stage in it
StageOrder == <<"direct", "cleanup", "single_quote", "regex">>
StageIndex(s) == CHOOSE n \in 1..Len(StageOrder) : StageOrder[n] = s

\* the single-quote stage is guarded; the other stages always apply
Applies(s) == s = "single_quote" => LooksSingleQuoted(parser.fixed)
\* stage s, run on the texts of the frame, yields structured data
Yields(s) == Applies(s) /\ Yield(s, parser).ok
\* the stages up to the last one run
UpToLast ==
    {s \in {"direct", "cleanup", "single_quote", "regex"} :
        StageIndex(s) <= StageIndex(parser.ran[Len(parser.ran)])}

\* C19: the parser runs its stages in the fixed order direct parse, cleanup,
\* single-quote substitution, regex extraction; it returns what the first
\* stage that yields structured data yields, and no later stage runs; it
\* raises the parse error only when no stage yields.
C19_FirstYieldingStageWins ==
    /\ \A n \in 1..Len(parser.ran) : \A m \in 1..Len(parser.ran) :
           n < m => StageIndex(parser.ran[n]) < StageIndex(parser.ran[m])
    /\ parser.pc \in {"cleanup", "single_quote", "regex", "returned", "raised"}
         => /\ parser.ran[1] = "direct"
            /\ parser.cleaned = Cleaned(parser.raw)
            /\ \A s \in UpToLast : s \in {"direct", "cleanup"} \/ Applies(s)
                  => \E n \in 1..Len(parser.ran) : parser.ran[n] = s
            /\ Len(parser.ran) > 1 => parser.fixed = Fixed(parser.cleaned)
    /\ parser.pc = "returned" =>
           LET last == parser.ran[Len(parser.ran)]
           IN  /\ Yields(last)
               /\ parser.result = Yield(last, parser).v
               /\ \A s \in UpToLast \ {last} : ~Yields(s)
    /\ parser.pc = "raised" =>
           /\ \A n \in 1..Len(StageOrder) : ~Yields(StageOrder[n])
           /\ parser.ran[Len(parser.ran)] = "regex"
           /\ parser.result = NoValue
    /\ parser.pc \in {"cleanup", "single_quote", "regex"} =>
           /\ \A n \in 1..Len(parser.ran) : ~Yields(parser.ran[n])
           /\ parser.result = NoValue

\* C19 witness: a single-quoted reply that the direct parse and the cleanup
\* both rejected and the single-quote substitution parsed
C19_Witness ==
    /\ parser.pc = "returned"
    /\ parser.kind = "single_quoted"
    /\ parser.ran = <<"direct", "cleanup", "single_quote">>
    /\ parser.result = json_loads(parser.ref).v

\* the replies the claim is about: of a kind it lists and with one reading,
\* that is, a single-quoted reply whose value holds no apostrophe and a
\* triple-quoted segment that neither begins nor ends with whitespace
Recoverable ==
    /\ parser.kind \in {"fenced", "trailing_comma", "single_quoted",
                        "literal_newline", "triple_quoted"}
    /\ parser.kind = "single_quoted" =>
           \A i \in 1..Len(parser.value) : parser.value[i] # SQ
    /\ parser.kind = "triple_quoted" =>
           parser.value = str_strip(parser.value)

\* C20: for a fenced, trailing-comma, single-quoted, literal-newline or
\* triple-quoted reply the parser returns the structured object that parsing
\* the well-formed equivalent of the reply gives.
C20_SameAsWellFormed ==
    (parser.pc = "returned" /\ Recoverable) =>
        parser.result = json_loads(parser.ref).v

\* ------------------------------------------------------------------------
\* Sandboxed chart runner: properties
\* ------------------------------------------------------------------------
\* C21: when the runner has returned, its temporary script file is gone,
\* whichever exit path was taken.
C21_TempFileRemoved ==
    sandbox.pc = "returned" => ~sandbox.tmp.exists

\* C22: a child that exited non-zero or timed out gives an empty image list
\* and a non-empty error, whatever it had written to stdout; and in every
\* result a non-null error comes with an empty image list.
C22_FailureGivesNoImages ==
    sandbox.pc \in {"finally", "returned"} =>
        /\ ~sandbox.result.error.none => sandbox.result.images = <<>>
        /\ (\/ sandbox.child.how = "timeout"
            \/ sandbox.child.how = "completed" /\ sandbox.child.returncode # 0)
           => /\ sandbox.result.images = <<>>
              /\ ~sandbox.result.error.none
              /\ sandbox.result.error.text # <<>>

\* a child that exited non-zero after its epilogue wrote images has returned
C22_Witness ==
    /\ sandbox.pc = "returned"
    /\ sandbox.child.how = "completed"
    /\ sandbox.child.returncode # 0
    /\ sandbox.child.payload = "images"
    /\ sandbox.child.images # <<>>
    /\ sandbox.result.images = <<>>

\* a piece of text that shows a filesystem path
ShowsPath(piece) == piece \in Paths \cup FileRefs

\* C23: the error text of a result never shows a filesystem path.
C23_NoPathInError ==
    sandbox.pc = "returned" =>
        \A i \in 1..Len(sandbox.result.error.text) :
            ~ShowsPath(sandbox.result.error.text[i])

\* ------------------------------------------------------------------------
\* Concurrent requests: state ownership and the shared connection
\* ------------------------------------------------------------------------
\* what request r can observe of its own run: the state dict and the
\* contents of the list its trace refers to
View(r) ==
    [state |-> server.runs[r].state,
     trace |-> IF server.runs[r].trace = None THEN <<>>
               ELSE server.heap[server.runs[r].trace].items]

\* a step of request r
StepOf(r) ==
    \/ run_agent_call(r)
    \/ \E node \in {"analyze", "prepare_step", "fix_sql", "advance_step",
                    "generate_viz", "answer"} : run_node(r, node)
    \/ sql_validate(r)
    \/ sql_execute(r)
    \/ sql_description(r)
    \/ run_agent_end(r)

\* C24: for any interleaving of two runs, no step of one run changes a field
\* of the other run's state (steps, cursor, current query and results,
\* accumulated lists, visualizations, error, retries, answer) or the
\* contents of the other run's trace
C24_RunsOwnTheirState ==
    [][\A r \in RunIds :
         StepOf(r) => \A o \in RunIds \ {r} : View(o)' = View(o)]_vars

\* two runs in flight at once, one repairing its query and the other at the
\* chart node with a query accumulated, each with entries in its own trace
C24_Witness ==
    /\ server.runs["r1"].pc = "fix_sql"
    /\ server.runs["r1"].state.retries = 1
    /\ server.runs["r2"].pc = "generate_viz"
    /\ Len(server.runs["r2"].state.sql_queries) = 1
    /\ server.runs["r1"].trace # server.runs["r2"].trace
    /\ Len(View("r1").trace) = 2
    /\ Len(View("r2").trace) = 2

\* C25: while a request is between validate_query and the read of the
\* description, the last statement on the shared connection is its own and
\* the description is that of its own query; the rows a request was given
\* carry the column names of the query it ran
C25_QueriesNotInterleaved ==
    \A r \in RunIds :
        /\ server.runs[r].call \in {"validated", "executed"} =>
              server.conn.by = r
        /\ server.runs[r].call = "validated" =>
              server.conn.description = ExplainColumns
        /\ server.runs[r].call = "executed" =>
              server.conn.description = db_columns(server.runs[r].state.sql_query)
        /\ server.runs[r].executed # None =>
              server.runs[r].columns = db_columns(server.runs[r].executed)

\* one request was given the rows of good1 and is still in flight while the
\* other is between the execution of good2 and the read of its description
C25_Witness ==
    /\ server.runs["r1"].executed = "good1"
    /\ server.runs["r1"].columns = <<"col1">>
    /\ server.runs["r1"].pc = "generate_viz"
    /\ server.runs["r2"].call = "executed"
    /\ server.runs["r2"].state.sql_query = "good2"
    /\ server.conn.description = <<"col2">>

\* ------------------------------------------------------------------------
\* Workflow: trace, cursor and retry counter
\* ------------------------------------------------------------------------
IsPrefix(a, b) == Len(a) <= Len(b) /\ SubSeq(b, 1, Len(a)) = a

TraceKinds == {"info", "analysis", "viz", "error"}

\* the node that follows node when it took the state s to t, as the routers
\* and edges decide it from the state alone
RouteOf(node, s, t) ==
    CASE node = "analyze" -> route_after_analysis(t)
      [] node = "prepare_step" ->
           IF s.current_step < Len(s.steps) /\ ~s.steps[s.current_step + 1].isDict
           THEN "raised" ELSE edge_prepare_step
      [] node = "execute_sql" -> route_after_sql(t)
      [] node = "fix_sql" -> edge_fix_sql
      [] node = "advance_step" -> edge_advance_step
      [] node = "generate_viz" ->
           IF Len(s.all_query_results) > 0 /\ LabelRaises(s)
           THEN "raised" ELSE edge_generate_viz
      [] node = "answer" ->
           IF ~AnswerAlreadySet(s) /\ LabelRaises(s)
           THEN "raised" ELSE edge_answer
      [] node = "END" -> "returned"

\* C26: the trace only grows at its end, every entry's kind is one of info,
\* analysis, viz, error, and the node run next is decided by the state
\* alone, whatever the trace holds.
C26_TraceAppendOnly ==
    /\ [][IsPrefix(trace, trace')]_vars
    /\ [](\A i \in 1..Len(trace) : trace[i].type \in TraceKinds)
    /\ [][(pc' # pc) => (pc' = RouteOf(pc, state, state'))]_vars

\* C26 witness: a run returned whose trace holds entries of three kinds
C26_Witness ==
    /\ pc = "returned"
    /\ {trace[i].type : i \in 1..Len(trace)} = {"info", "analysis", "viz", "error"}
    /\ response.trace = trace

\* C27 (as stated): entry i of the accumulated queries is the query of plan
\* step i (as repaired), so dataset i carries the description of the step
\* that produced it.
C27_AccumulatedAlignedWithPlan ==
    \A i \in 1..Len(state.sql_queries) :
        /\ i <= Len(state.steps)
        /\ state.steps[i].isDict
        /\ state.sql_queries[i] = state.steps[i].sql_query

\* the sequence 0, 1, ..., n - 1
UpTo(n) == [i \in 1..n |-> i - 1]

\* the plan was made and has steps: analyze is over and did not fail
Planned ==
    /\ pc # "analyze"
    /\ ~hist.analysisFailed
    /\ Len(state.steps) > 0

\* the cursor: it never decreases and only advance_step moves it, by one
CursorMoves ==
    [][/\ state'.current_step >= state.current_step
       /\ state'.current_step # state.current_step =>
            /\ pc = "advance_step"
            /\ state'.current_step = state.current_step + 1]_vars

\* C28 (as stated), its part about preparation: the steps are prepared in
\* increasing order and a run that planned successfully and returned has
\* prepared every index 0..len(steps)-1 exactly once.
C28_EveryStepPreparedOnce ==
    /\ hist.prepared = UpTo(Len(hist.prepared))
    /\ (Planned /\ pc = "returned") => hist.prepared = UpTo(Len(state.steps))

\* C28 (amended): the cursor never decreases and moves only by +1 in
\* advance_step; the steps are prepared in increasing order, each at most
\* once, inside the loop exactly those up to the cursor; a run that entered
\* the step loop has prepared every index exactly once when it reaches
\* generate_viz.  The loop is entered only for a plan that has a step with
\* a query text: the steps of any other plan are never prepared.
C28_StepsPreparedInOrder ==
    /\ CursorMoves
    /\ [](hist.prepared = UpTo(Len(hist.prepared)))
    /\ [](pc \in {"execute_sql", "fix_sql", "advance_step"} =>
            hist.prepared = UpTo(state.current_step + 1))
    /\ []((hist.prepared # <<>> /\ pc \in FromViz) =>
            hist.prepared = UpTo(Len(state.steps)))
    /\ []((pc = "prepare_step" /\ hist.prepared = <<>>) =>
            FirstTruthyQuery(state.steps) # {})

\* C28 witness: a two-step plan, both steps prepared, the run returned
C28_Witness ==
    /\ pc = "returned"
    /\ Len(state.steps) = 2
    /\ hist.prepared = <<0, 1>>
    /\ state.current_step = 1

\* C29: the cursor never exceeds the number of steps; with a non-empty plan
\* it stays below it, so prepare_step never runs past the last step.
C29_CursorInsidePlan ==
    /\ state.current_step <= Len(state.steps)
    /\ Len(state.steps) > 0 => state.current_step < Len(state.steps)
    /\ pc = "prepare_step" => state.current_step < Len(state.steps)

\* C29 witness: prepare_step is entered for the last step of a two-step plan
C29_Witness ==
    /\ pc = "prepare_step"
    /\ Len(state.steps) = 2
    /\ state.current_step = 1

\* the execution that execute_sql is about to make fails
ExecutionFails(s) == Truthy(s.sql_query) /\ ~sql_tool(s.sql_query).success

\* C30: the retry counter is 0 and error is cleared whenever prepare_step is
\* entered, a failed execution adds exactly 1 to it, a successful execution
\* and fix_sql leave it unchanged, and it never exceeds 4.
C30_RetriesScopedToStep ==
    /\ [](state.retries \in 0..4)
    /\ [](pc = "prepare_step" => state.retries = 0 /\ state.error = None)
    /\ [][(pc = "execute_sql") =>
            (state'.retries = state.retries
                                + (IF ExecutionFails(state) THEN 1 ELSE 0))]_vars
    /\ [][(pc = "fix_sql") => (state'.retries = state.retries)]_vars

\* C30 witness: the first step used up its retries, the second is prepared
C30_Witness ==
    /\ pc = "prepare_step"
    /\ state.current_step = 1
    /\ hist.execs[0] = 4
    /\ 0 \in hist.exhausted
    /\ state.retries = 0

\* ------------------------------------------------------------------------
\* Workflow: the plan after planning
\* ------------------------------------------------------------------------
\* C31: after planning, the number of steps and every description stay as
\* planned; a step's query changes only in fix_sql, only for the current
\* step and only after its execution failed; a step that has executed
\* successfully is never modified again
C31_PlanChangesOnlyByRepair ==
    [][(pc # "analyze") =>
         (/\ Len(state'.steps) = Len(state.steps)
          /\ \A i \in 1..Len(state.steps) :
               /\ state'.steps[i].isDict = state.steps[i].isDict
               /\ state'.steps[i].description = state.steps[i].description
               /\ state'.steps[i] # state.steps[i] =>
                    /\ pc = "fix_sql"
                    /\ i = state.current_step + 1
                    /\ ExecutionFails(state)
                    /\ state.sql_query \in hist.failedTexts[i - 1]
                    /\ hist.okCount[i - 1] = 0)]_vars

\* the first step was repaired and then executed, and the run is repairing
\* the second step: the first step keeps the repaired text
C31_Witness ==
    /\ pc = "execute_sql"
    /\ state.current_step = 1
    /\ hist.fixes[0] > 0
    /\ hist.okCount[0] = 1
    /\ hist.fixes[1] > 0
    /\ hist.failedTexts[0] # {}
    /\ state.steps[1].sql_query \notin hist.failedTexts[0]
    /\ state.steps[2].sql_query = state.sql_query

\* C32: whenever execute_sql is about to run, the current query is the
\* query stored in the current plan step; this holds after a repair too,
\* because fix_sql writes the repaired text to both
C32_CurrentQueryIsStepQuery ==
    pc = "execute_sql" =>
        /\ state.current_step < Len(state.steps)
        /\ state.sql_query = state.steps[state.current_step + 1].sql_query

\* execute_sql is about to run a repaired text that differs from every text
\* that failed for this step
C32_Witness ==
    /\ pc = "execute_sql"
    /\ hist.fixes[state.current_step] > 0
    /\ ~hist.fixFailed
    /\ Truthy(state.sql_query)
    /\ state.sql_query \notin hist.failedTexts[state.current_step]
    /\ state.steps[state.current_step + 1].sql_query = state.sql_query

\* ------------------------------------------------------------------------
\* Workflow: the chart node, the returned error, skipped steps
\* ------------------------------------------------------------------------
\* C33: with no accumulated results generate_viz makes no model call and no
\* sandbox run; with an empty or `pass` chart reply it makes no sandbox run;
\* in both cases visualizations is unchanged and the run goes on to answer.
\* The sandbox runs only with accumulated results and another reply
C33_SandboxOnlyWithSomethingToDraw ==
    [][(pc = "generate_viz") =>
         (/\ Len(state.all_query_results) = 0 =>
                /\ hist'.nVizCalls = hist.nVizCalls
                /\ hist'.nSandbox = hist.nSandbox
                /\ state'.visualizations = state.visualizations
                /\ pc' = "answer"
          /\ (hist'.nVizCalls > hist.nVizCalls
                /\ hist'.vizReply \in {"", "pass"}) =>
                /\ hist'.nSandbox = hist.nSandbox
                /\ state'.visualizations = state.visualizations
                /\ pc' = "answer"
          /\ hist'.nSandbox > hist.nSandbox =>
                /\ Len(state.all_query_results) > 0
                /\ hist'.vizReply \notin {"", "pass", None})]_vars

\* the model was asked for chart code over accumulated results, replied
\* `pass`, and the run is at answer generation without a sandbox run
C33_Witness ==
    /\ pc = "answer"
    /\ Len(state.all_query_results) > 0
    /\ hist.nVizCalls = 1
    /\ hist.vizReply = "pass"
    /\ hist.nSandbox = 0
    /\ state.visualizations = <<>>

\* the plan has a last step and the last time it was executed it failed
LastStepFailed ==
    /\ Len(state.steps) > 0
    /\ hist.execs[Len(state.steps) - 1] > 0
    /\ hist.okCount[Len(state.steps) - 1] = 0

\* C34: in a run that planned and answered without a failure of either
\* call, the returned error is set exactly when the final execution of the
\* last plan step failed
C34_ErrorIffLastStepFailed ==
    (pc = "returned" /\ ~hist.analysisFailed /\ ~hist.answerFailed) =>
        ((response.error # None) <=> LastStepFailed)

\* ------------------------------------------------------------------------
\* Model Client shared by the requests of a provider
\* ------------------------------------------------------------------------
\* C35: the current model belongs to the client the requests share: it
\* changes only by the switch a failed attempt of some call makes, from
\* then on every request of every call on the client goes out with the
\* fallback, and the calls of the workflow never set it back to the primary
C35_SwitchSharedAndNeverReset ==
    /\ [][(client'.current_model # client.current_model) =>
             /\ client'.current_model = client.fallback_model
             /\ chist'.switches = chist.switches + 1
             /\ \E c \in Callers :
                    Len(calls'[c].failures) = Len(calls[c].failures) + 1]_vars
    /\ [][(chist.switches >= 1) =>
             /\ client'.current_model = client.fallback_model
             /\ \A c \in Callers :
                    (calls'[c].attempts = calls[c].attempts + 1) =>
                        calls'[c].model = client.fallback_model]_vars

\* one call failed once and switched the client; the other call, which
\* never failed, had its only request answered by the fallback
C35_Witness ==
    \E c, d \in Callers :
        /\ c # d
        /\ client.model_name # client.fallback_model
        /\ Len(calls[c].failures) >= 1
        /\ calls[c].failures[1].switched
        /\ calls[d].kind = "generate"
        /\ calls[d].failures = <<>>
        /\ calls[d].attempts = 1
        /\ calls[d].pc = "returned"
        /\ calls[d].model = client.fallback_model

\* ------------------------------------------------------------------------
\* Key rotation
\* ------------------------------------------------------------------------
\* the fields update_api_key may assign on a client
Credential(c) == [api_key |-> c.api_key, client |-> c.client,
                  sync_client |-> c.sync_client]

\* C36: update_api_key(provider, key) gives the named provider's client the
\* new key and backend handles built with it, leaves the other provider's
\* client and the current model of both unchanged, and for an unknown
\* provider raises ValueError without changing any client
C36_KeyUpdateTouchesNamedClientOnly ==
    [][(registry'.last.n # registry.last.n) =>
         LET provider == registry'.last.provider
             key == registry'.last.key
         IN  /\ \A p \in Providers :
                   registry'.clients[p].base = registry.clients[p].base
             /\ registry'.last.status = "updated" =>
                   /\ provider \in Providers
                   /\ Credential(registry'.clients[provider]) =
                         [api_key |-> key, client |-> Handle(key),
                          sync_client |-> IF provider = "groq"
                                          THEN Handle(key) ELSE NoHandle]
                   /\ \A p \in Providers \ {provider} :
                         registry'.clients[p] = registry.clients[p]
             /\ (provider \notin Providers /\ provider # "" /\ key # "") =>
                   /\ registry'.last.status = "400 ValueError"
                   /\ registry'.clients = registry.clients
             /\ registry'.last.status # "updated" =>
                   registry'.clients = registry.clients]_vars

\* the Groq key was replaced after both clients had switched to their
\* fallback model, and the Gemini client still has the key of the settings
C36_Witness ==
    /\ registry.last.status = "updated"
    /\ registry.last.provider = "groq"
    /\ registry.clients["groq"].api_key = "key2"
    /\ registry.clients["groq"].sync_client = Handle("key2")
    /\ registry.clients["groq"].base.current_model = "fallback"
    /\ registry.clients["gemini"].base.current_model = "fallback"
    /\ registry.clients["gemini"].api_key = SettingsKey
    /\ registry.clients["gemini"].client = Handle(SettingsKey)

\* C37: a plan (not a conversational answer) leads into the step loop
\* exactly when one of its steps has a query text, unless the router raises
\* on an element that is no object; execute_sql on a step without a query
\* text returns the state as it is, appends nothing, requests no repair, and
\* the run goes on to the next step or to the chart node
C37_QuerylessStepSkipped ==
    /\ [][(pc = "analyze" /\ ~hist'.analysisFailed
              /\ hist'.conversational = None /\ pc' # "raised") =>
             ((pc' = "prepare_step") <=> (FirstTruthyQuery(state'.steps) # {}))]_vars
    /\ [][(pc = "execute_sql" /\ ~Truthy(state.sql_query)) =>
             /\ state' = state
             /\ trace' = trace
             /\ hist'.execs = hist.execs
             /\ hist'.fixes = hist.fixes
             /\ pc' = IF state.current_step < Len(state.steps) - 1
                      THEN "advance_step" ELSE "generate_viz"]_vars

\* the first step of a two-step plan has no query text: it was prepared,
\* execute_sql made no call for it, and the run is advancing to the second
\* step, which has one
C37_Witness ==
    /\ pc = "advance_step"
    /\ Len(state.steps) = 2
    /\ state.steps[1].isDict
    /\ state.steps[1].sql_query = None
    /\ Truthy(state.steps[2].sql_query)
    /\ hist.prepared = <<0>>
    /\ hist.execs[0] = 0
    /\ state.error = None
    /\ state.retries = 0
    /\ state.sql_queries = <<>>

\* C38: once a delete of the session has returned, the messages it removed
\* are never again in the session folder nor in the object that
\* get_or_create_session gives, whatever a chat request that was waiting for
\* its run at the time of the delete does afterwards
C38_DeletedMessagesStayDeleted ==
    /\ Range(sessions.folder.messages) \cap sessions.deleted = {}
    /\ sessions.cache # None =>
         Range(sessions.objects[sessions.cache].messages) \cap sessions.deleted = {}

\* C39: a save of a run's images writes no file number that was in the
\* visualizations folder before the save, empty entries included
C39_NoImageOverwritten ==
    sessions.written \cap sessions.existing = {}

====
